---- MODULE Spec2Model ----
(***************************************************************************)
(* A model of the CityZones maps-service grid engine                       *)
(* (src/cityzones/riskzones.py, src/cityzones/utils.py) and of its worker  *)
(* daemon (src/cityzones-worker.py).                                       *)
(*                                                                         *)
(* Numbers.  The program works on Python floats; the model works on exact  *)
(* integers and rationals:                                                 *)
(*  - a radius max(sqrt(Ax)/2, 1) is kept as the integer A = max(Ax, 4)    *)
(*    with radius = sqrt(A)/2; every comparison the code makes with a      *)
(*    radius or a minimum distance is decided by squaring;                 *)
(*  - a risk is a rational [n |-> numerator, d |-> denominator], d > 0;    *)
(*  - math.log is decided by comparing with rational brackets of e^k;      *)
(*  - longitudes and latitudes are counted in half zones from the left     *)
(*    bottom corner of the grid, so the centre of zone (x, y) is           *)
(*    (2x + 1, 2y + 1); the haversine distance between a zone and a PoI of *)
(*    a grid of a few zones is the planar distance, half a zone being      *)
(*    zone_size / 2 metres (squared: PoiDist2).                            *)
(***************************************************************************)
EXTENDS Integers, Sequences, FiniteSets, TLC

VARIABLES
    pc,              \* position of the main program / positioning call
    err,             \* exception that ended the run ("" when none)
    grid_x, grid_y,  \* grid['grid_x'], grid['grid_y']
    M,               \* grid['M']
    n_edus_loose,    \* grid['n_edus_loose']
    n_edus_tight,    \* grid['n_edus_tight']
    zone_size,       \* grid['zone_size'] (metres)
    conn_threshold,  \* connectivity_threshold, in tenths
    edu_alg,         \* conf['edu_alg']
    inside,          \* zone['inside'], by zone id
    RL,              \* zone['RL'], by zone id
    is_road,         \* zone['is_road'], by zone id
    dpconn,          \* zone['dpconn'], by zone id, in tenths
    has_edu,         \* zone['has_edu'], by zone id
    edu_type,        \* zone['edu_type'], by zone id
    urban_prob,      \* zone['urban_prob'], by zone id, in 1/200
    edus,            \* grid['edus']: RL -> sequence of zone ids
    Ax,              \* grid['Ax']: RL -> coverage area of an EDU
    final_edus,      \* final_edus of set_edus_positions_uniform_restricted
    edus_remaining,  \* edus_remaining of the restricted / restricted+ loops
    n_run,           \* n_run of the restricted / restricted+ loops
    edu_positioned,  \* edu_positioned of the restricted+ loop
    rp_type,         \* edus_type of the running restricted+ call
    polygons,        \* grid['polygons']: sequence of rings of <<lon, lat>>
    pois,            \* grid['pois_inside']: sequence of [lon, lat, weight]
    risk,            \* zone['risk'], by zone id: a rational [n, d]
    elev_in,         \* [on: 'output_elevation' in conf, H: the value
                     \* calculate_risk_of_zone_elevation returns for each zone]
    risk_elevation,  \* zone['risk_elevation'], by zone id: <<>> (no such key) or <<H>>
    edus_by_rl,      \* edus of reset_edus_data: RL -> number of EDUs to position
    roads,           \* the argument roads of the last add_roads call
    roads_points,    \* grid['roads_points']
    n_calls,         \* number of add_roads calls made on the grid
    range_radius,    \* the argument range_radius of __get_spiral_path
    spiral_center,   \* id of the zone the spiral path is walked from
    spiral_path,     \* the list __get_spiral_path returned
    exit_status,     \* exit status of the main program (-1 while it runs)
    outputs,         \* the output files written, by their key in conf
    cache_zones,     \* conf['cache_zones']
    cache_file,      \* the cache file: <<>> (no such file) or the zones dumped
    conf,            \* the keys of conf, the job descriptor
    pois_all,        \* grid['pois']: sequence of [lon, lat, weight]
    time_classification, \* the name time_classification is bound
    last_edus,       \* grid['edus'] as the last run that reached exit(EXIT_OK)
                     \* left it (<<>>: no such run yet)
    task,            \* task of the worker's main loop: [none: it is None, keys: its
                     \* keys, config: the keys of task['config']]
    files,           \* the files of the worker's TASKS_DIR and OUT_DIR, by
                     \* their key in the task's config ("json": the descriptor)
    n_tasks          \* number of tasks the worker has received

\* the inputs of a run
inputVars == <<grid_x, grid_y, M, n_edus_loose, n_edus_tight, zone_size, conn_threshold,
               edu_alg, is_road, dpconn, polygons, pois, elev_in>>
\* what classification writes
classVars == <<inside, RL, risk, risk_elevation>>
\* what positioning writes
eduVars == <<has_edu, edu_type, urban_prob, edus, Ax, edus_by_rl>>
\* the locals of the restricted and restricted+ loops
loopVars == <<final_edus, edus_remaining, n_run, edu_positioned, rp_type>>

\* what add_roads reads and writes besides is_road
roadVars == <<roads, roads_points, n_calls>>
\* the spiral path
spiralVars == <<range_radius, spiral_center, spiral_path>>
\* the worker daemon (src/cityzones-worker.py)
workerVars == <<task, files, n_tasks>>
\* how the main program ends
runVars == <<exit_status, outputs, cache_zones, cache_file, conf, pois_all,
             time_classification, last_edus>>

vars == <<pc, err, inputVars, classVars, eduVars, loopVars, roadVars, spiralVars, workerVars, runVars>>

(***************************************************************************)
(* Bounds of the model.                                                    *)
(***************************************************************************)
MaxGridX == 3
MaxGridY == 5
MaxM == 2
MaxLoose == 1
MaxTight == 3
MaxDraws == 2
MaxRuns == 2

(***************************************************************************)
(* Program constants.                                                      *)
(***************************************************************************)
EXIT_OK == 0
EXIT_NO_ZONES == 3
EDU_NONE == 0
EDU_LOOSE == 1
EDU_TIGHT == 2
EXIT_NO_CONF == 6

\* the keys of conf that the main program reads with conf[...] outside a try
\* block that catches KeyError
RequiredKeys ==
    {"left", "bottom", "right", "top", "zone_size", "M", "edus", "pois_types",
     "cache_zones", "edu_alg", "output"}

\* task = None: get_task() got no task
NoTask == [none |-> TRUE, keys |-> {}, config |-> {}]

(***************************************************************************)
(* Arithmetic helpers.                                                     *)
(***************************************************************************)
Min2(a, b) == IF a <= b THEN a ELSE b
Max2(a, b) == IF a >= b THEN a ELSE b
Abs(a) == IF a < 0 THEN -a ELSE a

\* int(math.sqrt(a)) for a >= 0.
ISqrt(a) == CHOOSE k \in 0..a : k * k <= a /\ (k + 1) * (k + 1) > a

\* Python's round(a / b) for a >= 0, b > 0: round half to even.
RoundDiv(a, b) ==
    LET q == a \div b
        r == a % b
    IN  IF 2 * r < b THEN q
        ELSE IF 2 * r > b THEN q + 1
        ELSE IF q % 2 = 0 THEN q ELSE q + 1

RECURSIVE SumTo(_, _)
\* sum of f[i] for i in 1..k
SumTo(f, k) == IF k = 0 THEN 0 ELSE f[k] + SumTo(f, k - 1)

Range(s) == {s[i] : i \in 1..Len(s)}

(***************************************************************************)
(* The grid.                                                               *)
(***************************************************************************)
NZones == grid_x * grid_y
Ids == 0..(NZones - 1)
Levels == 1..M
XOf(id) == id % grid_x
YOf(id) == id \div grid_x

\* grid['zones_inside']: the ids of the zones inside the AoI.
ZonesInside == {id \in Ids : inside[id]}

\* utils.__calculate_distance_in_grid, squared.
GridDist2(a, b) ==
    (XOf(b) - XOf(a)) * (XOf(b) - XOf(a)) + (YOf(b) - YOf(a)) * (YOf(b) - YOf(a))

(***************************************************************************)
(* Counting zones by RL.                                                   *)
(***************************************************************************)
\* get_number_of_zones_by_RL
NumberOfZonesByRL == [i \in Levels |-> Cardinality({id \in ZonesInside : RL[id] = i})]

\* get_number_of_roads_by_RL (its connectivity_threshold parameter is unused)
NumberOfRoadsByRL ==
    [i \in Levels |-> Cardinality({id \in ZonesInside : is_road[id] /\ RL[id] = i})]

NZonesFor(use_roads) == IF use_roads THEN NumberOfRoadsByRL ELSE NumberOfZonesByRL

\* the variable sum of get_number_of_edus_by_RL
WeightedSum(use_roads) ==
    LET nz == NZonesFor(use_roads)
    IN  SumTo([i \in Levels |-> i * nz[i]], M)

\* get_number_of_edus_by_RL divides by sum: ZeroDivisionError when it is 0.
EdusByRLRaises(use_roads) == WeightedSum(use_roads) = 0

\* get_number_of_edus_by_RL, when it does not raise
NumberOfEdusByRL(n_edus, use_roads) ==
    LET nz == NZonesFor(use_roads)
    IN  [i \in Levels |-> (n_edus * i * nz[i]) \div WeightedSum(use_roads)]

(***************************************************************************)
(* Urban probability, in units of 1/200: a road zone has 200, each further *)
(* zone of a sweep loses reducing_factor = zone_size / 200.                *)
(***************************************************************************)
RECURSIVE SweepVal(_, _)
\* the value a sweep along `line` gives its k-th zone (set_zone_urban_probability)
SweepVal(line, k) ==
    IF is_road[line[k]] THEN 200
    ELSE IF k = 1 THEN 0
    ELSE Max2(SweepVal(line, k - 1) - zone_size, 0)

\* a set_area_urban_probability with the two sweeps along the rows only
AreaUrbanProbabilityRows ==
    [id \in Ids |->
        LET x == XOf(id)
            y == YOf(id)
            l2r == [k \in 1..grid_x |-> grid_x * y + (k - 1)]
            r2l == [k \in 1..grid_x |-> grid_x * y + (grid_x - k)]
        IN  Max2(SweepVal(l2r, x + 1), SweepVal(r2l, grid_x - x))]

\* set_area_urban_probability: the maximum over the four sweeps
AreaUrbanProbability ==
    [id \in Ids |->
        LET x == XOf(id)
            y == YOf(id)
            l2r == [k \in 1..grid_x |-> grid_x * y + (k - 1)]
            r2l == [k \in 1..grid_x |-> grid_x * y + (grid_x - k)]
            b2t == [k \in 1..grid_y |-> grid_x * (k - 1) + x]
            t2b == [k \in 1..grid_y |-> grid_x * (grid_y - k) + x]
        IN  Max2(Max2(SweepVal(l2r, x + 1), SweepVal(r2l, grid_x - x)),
                 Max2(SweepVal(b2t, y + 1), SweepVal(t2b, grid_y - y)))]

\* get_urban_area_by_RL, on the urban probabilities up
UrbanAreaByRL(up) ==
    [i \in Levels |-> Cardinality({id \in ZonesInside : up[id] >= 100 /\ RL[id] = i})]

(***************************************************************************)
(* reset_edus_flag / reset_edus_data.                                      *)
(***************************************************************************)
EmptyEdus == [i \in Levels |-> <<>>]

\* reset_edus_data: its dict edus for the target n_edus, a 0 replaced by 1
\* (when it does not raise)
ResetEdusDataEdus(n_edus, use_roads) ==
    LET e == NumberOfEdusByRL(n_edus, use_roads)
    IN  [i \in Levels |-> IF e[i] = 0 THEN 1 ELSE e[i]]

\* reset_edus_data: grid['Ax'] for the target n_edus (when it does not raise)
ResetEdusDataAx(n_edus, use_roads) ==
    LET e == NumberOfEdusByRL(n_edus, use_roads)
        At == IF use_roads THEN UrbanAreaByRL(AreaUrbanProbability) ELSE NumberOfZonesByRL
    IN  [i \in Levels |-> RoundDiv(At[i], IF e[i] = 0 THEN 1 ELSE e[i])]

\* grid['radius'][i] = max(sqrt(Ax)/2, 1) = sqrt(RadA)/2
RadA(ax, i) == Max2(ax[i], 4)

\* int(grid['smallest_radius'])
IntSmallestRadius(ax) == ISqrt(RadA(ax, M)) \div 2

\* int(grid['smallest_radius'] * 2)
IntTwiceSmallestRadius(ax) == ISqrt(RadA(ax, M))

\* grid['step'][i] = int(2 * radius + 1)
StepOf(ax, i) == ISqrt(RadA(ax, i)) + 1

\* grid['search_range'] = -ceil(2 * grid_x / smallest_radius)
SearchRange(ax) ==
    -(CHOOSE k \in 0..(2 * grid_x) :
        /\ k * k * RadA(ax, M) >= 16 * grid_x * grid_x
        /\ \A j \in 0..(k - 1) : j * j * RadA(ax, M) < 16 * grid_x * grid_x)

\* dist < grid['min_dist'][i], for the squared grid distance d2:
\* sqrt(d2) < sqrt(RadA) + 1
BelowMinDist(ax, i, d2) ==
    LET t == d2 - RadA(ax, i) - 1
    IN  t < 0 \/ t * t < 4 * RadA(ax, i)

\* the zones of the slice lst[-1:search_range:-1]
TailWindow(lst, sr) ==
    {lst[j] : j \in Max2(sr + Len(lst) + 2, 1)..Len(lst)}

\* "Don't even try if we are still within the range of another EDU":
\* SkipZone is raised for the zone z
SkipZone(ax, ed, z) ==
    \E i \in Levels : \E e \in TailWindow(ed[i], SearchRange(ax)) :
        BelowMinDist(ax, RL[z], GridDist2(z, e))

(***************************************************************************)
(* Unbalanced positioning.                                                 *)
(***************************************************************************)
\* the start of a row: reset step_x, advance step_y where the RL had a zone
UnbalancedRowStart(u) ==
    [u EXCEPT !.step_x = [i \in Levels |-> 0],
              !.step_y = [i \in Levels |-> IF u.zone_in_y[i] THEN u.step_y[i] + 1
                                                            ELSE u.step_y[i]],
              !.zone_in_y = [i \in Levels |-> FALSE]]

\* one zone of the row-major scan
UnbalancedZone(ax, u, id) ==
    IF ~inside[id] \/ RL[id] \notin Levels THEN u
    ELSE LET i == RL[id]
             put == u.step_x[i] % StepOf(ax, i) = 0 /\ u.step_y[i] % StepOf(ax, i) = 0
         IN  [u EXCEPT !.zone_in_y[i] = TRUE,
                       !.edus[i] = IF put THEN Append(@, id) ELSE @,
                       !.step_x[i] = @ + 1]

RECURSIVE UnbalancedFrom(_, _, _)
UnbalancedFrom(ax, u, id) ==
    IF id >= NZones THEN u
    ELSE UnbalancedFrom(ax,
            UnbalancedZone(ax, IF XOf(id) = 0 THEN UnbalancedRowStart(u) ELSE u, id),
            id + 1)

\* set_edus_positions_uniform_unbalanced: the EDU lists it leaves
UniformUnbalanced(ax, ed) ==
    UnbalancedFrom(ax, [edus |-> ed,
                        step_x |-> [i \in Levels |-> 0],
                        step_y |-> [i \in Levels |-> 0],
                        zone_in_y |-> [i \in Levels |-> FALSE]], 0).edus

(***************************************************************************)
(* Balanced positioning.  s = [edus, has_edu].                             *)
(***************************************************************************)
\* a candidate search that takes the zone at x whether inside the AoI or not
BalancedCandidateAnyZone(y, x) ==
    IF grid_x * y + x >= NZones THEN -1 ELSE x

RECURSIVE BalancedCandidate(_, _)
\* the inner "while True" of a row: the x of the next zone inside the AoI,
\* or -1 when IndexError or OutOfBounds ends the row
BalancedCandidate(y, x) ==
    LET id == grid_x * y + x
    IN  IF id >= NZones THEN -1
        ELSE IF inside[id] THEN x
        ELSE IF x >= grid_x THEN -1
        ELSE BalancedCandidate(y, x + 1)

RECURSIVE BalancedRow(_, _, _, _)
BalancedRow(ax, s, y, x) ==
    IF x >= grid_x THEN s
    ELSE LET c == BalancedCandidate(y, x)
             z == grid_x * y + c
         IN  IF c = -1 THEN s
             ELSE IF SkipZone(ax, s.edus, z) THEN BalancedRow(ax, s, y, c + 1)
             ELSE BalancedRow(ax,
                     [edus |-> [s.edus EXCEPT ![RL[z]] = Append(@, z)],
                      has_edu |-> [s.has_edu EXCEPT ![z] = TRUE]],
                     y, c + IntTwiceSmallestRadius(ax))

RECURSIVE BalancedRows(_, _, _)
BalancedRows(ax, s, y) ==
    IF y >= grid_y THEN s ELSE BalancedRows(ax, BalancedRow(ax, s, y, 0), y + 1)

\* set_edus_positions_uniform_balanced
UniformBalanced(ax, s) == BalancedRows(ax, s, IntSmallestRadius(ax))

NoEdu == [id \in Ids |-> FALSE]
NoType == [id \in Ids |-> EDU_NONE]
TotalEdus == n_edus_loose + n_edus_tight

(***************************************************************************)
(* The spiral path (utils.__get_spiral_path).                              *)
(***************************************************************************)
RECURSIVE AppendUpTo(_, _, _, _)
\* one "for s in range(0, step, step_signal)" loop: append val, return as soon
\* as len(steps) >= max_steps
AppendUpTo(steps, val, n, max_steps) ==
    IF n = 0 THEN steps
    ELSE LET t == Append(steps, val)
         IN  IF Len(t) >= max_steps THEN t ELSE AppendUpTo(t, val, n - 1, max_steps)

RECURSIVE SpiralLoop(_, _, _)
SpiralLoop(steps, step, max_steps) ==
    LET step_signal == IF step < 0 THEN -1 ELSE 1
        v == AppendUpTo(steps, step_signal * grid_x, Abs(step), max_steps)
        h == AppendUpTo(v, step_signal, Abs(step), max_steps)
    IN  IF Len(v) >= max_steps THEN v
        ELSE IF Len(h) >= max_steps THEN h
        ELSE SpiralLoop(h, -(step + step_signal), max_steps)

\* __get_spiral_path that returns when len(steps) > max_steps
GetSpiralPathOneMore(max_steps) == SpiralLoop(<<>>, -1, max_steps + 1)

\* __get_spiral_path(grid, range_radius) for max_steps = (2 * range_radius + 1)^2 - 1
GetSpiralPath(max_steps) == SpiralLoop(<<>>, -1, max_steps)

\* the least integer >= (2 * radius[i] + 1)^2 - 1 = RadA + 2 * sqrt(RadA)
SpiralMaxSteps(ax, i) ==
    RadA(ax, i) + (CHOOSE k \in 0..(2 * RadA(ax, i)) :
                      /\ k * k >= 4 * RadA(ax, i)
                      /\ \A j \in 0..(k - 1) : j * j < 4 * RadA(ax, i))

(***************************************************************************)
(* Restricted positioning.  s = [edus, has_edu].                           *)
(***************************************************************************)
\* dist > grid['radius'][i] + 1 for the squared grid distance d2:
\* sqrt(d2) > sqrt(RadA)/2 + 1
BeyondRadiusPlusOne(ax, i, d2) ==
    LET t == 4 * d2 + 4 - RadA(ax, i)
    IN  d2 >= 1 /\ t > 0 /\ t * t > 64 * d2

\* the tests a nearby zone must pass to take the EDU of `zone`
NearbyZoneOk(ax, fin, he, i, zone, nb) ==
    /\ ~BeyondRadiusPlusOne(ax, i, GridDist2(zone, nb))
    /\ inside[nb]
    /\ is_road[nb]
    /\ ~he[nb]
    /\ nb \notin Range(fin[i])

RECURSIVE SpiralFind(_, _, _, _, _, _, _, _)
\* walk the spiral from zone_id; the first nearby zone that passes, or -1.
\* grid['zones'][zone_id] is Python indexing: a negative index counts from the
\* end of the list, IndexError outside -len..len-1.
SpiralFind(ax, fin, he, i, zone, path, k, zone_id) ==
    IF k > Len(path) THEN -1
    ELSE LET zid == zone_id + path[k]
             nb == IF zid < 0 THEN zid + NZones ELSE zid
         IN  IF zid < -NZones \/ zid >= NZones
             THEN SpiralFind(ax, fin, he, i, zone, path, k + 1, zid)
             ELSE IF NearbyZoneOk(ax, fin, he, i, zone, nb) THEN nb
             ELSE SpiralFind(ax, fin, he, i, zone, path, k + 1, zid)

RECURSIVE RestrictedMoveList(_, _, _, _, _, _)
\* "for zone in grid['edus'][i]": the zones orig[k..] still to look at
RestrictedMoveList(ax, fin, s, i, orig, k) ==
    IF k > Len(orig) THEN s
    ELSE LET zone == orig[k]
         IN  IF is_road[zone] THEN RestrictedMoveList(ax, fin, s, i, orig, k + 1)
             ELSE LET he == [s.has_edu EXCEPT ![zone] = FALSE]
                      nb == SpiralFind(ax, fin, he, i, zone,
                                       GetSpiralPath(SpiralMaxSteps(ax, i)), 1, zone)
                      t == IF nb = -1
                           THEN [edus |-> s.edus, has_edu |-> he]
                           ELSE [edus |-> [s.edus EXCEPT ![i] = Append(@, nb)],
                                 has_edu |-> [he EXCEPT ![nb] = TRUE]]
                  IN  RestrictedMoveList(ax, fin, t, i, orig, k + 1)

\* grid['edus'][i].remove(zone) for every zone marked for removal
RemoveNonRoads(lst, n_orig) ==
    SelectSeq(SubSeq(lst, 1, n_orig), LAMBDA z : is_road[z])
        \o SubSeq(lst, n_orig + 1, Len(lst))

RECURSIVE RestrictedMoveLevels(_, _, _, _)
RestrictedMoveLevels(ax, fin, s, i) ==
    IF i > M THEN s
    ELSE LET orig == s.edus[i]
             t == RestrictedMoveList(ax, fin, s, i, orig, 1)
             u == [t EXCEPT !.edus[i] = RemoveNonRoads(@, Len(orig))]
         IN  RestrictedMoveLevels(ax, fin, u, i + 1)

\* one run of the "while edus_remaining > 0" loop, up to the move of the EDUs
\* to final_edus: [edus, has_edu] after it
RestrictedRunResult(ax, fin) ==
    RestrictedMoveLevels(ax, fin,
        UniformBalanced(ax, [edus |-> EmptyEdus, has_edu |-> NoEdu]), 1)

\* edus_total: the number of EDUs in the lists l
CountEdus(l) == SumTo([i \in Levels |-> Len(l[i])], M)

(***************************************************************************)
(* Restricted+ positioning.                                                *)
(* s = [edus, has_edu, edu_type, remaining, positioned].                   *)
(***************************************************************************)
RECURSIVE RestrictedPlusCandidateAnyRoad(_, _, _, _)
\* a candidate search that does not read dpconn
RestrictedPlusCandidateAnyRoad(he, th, y, x) ==
    LET id == grid_x * y + x
    IN  IF id >= NZones THEN -1
        ELSE IF inside[id] /\ is_road[id] /\ ~he[id] THEN x
        ELSE IF x >= grid_x THEN -1
        ELSE RestrictedPlusCandidateAnyRoad(he, th, y, x + 1)

RECURSIVE RestrictedPlusCandidate(_, _, _, _)
\* the inner "while True" of a row: the x of the next zone that is inside the
\* AoI, a road, connected above the threshold th and without EDU, or -1 when
\* IndexError or OutOfBounds ends the row
RestrictedPlusCandidate(he, th, y, x) ==
    LET id == grid_x * y + x
    IN  IF id >= NZones THEN -1
        ELSE IF inside[id] /\ is_road[id] /\ dpconn[id] > th /\ ~he[id] THEN x
        ELSE IF x >= grid_x THEN -1
        ELSE RestrictedPlusCandidate(he, th, y, x + 1)

RECURSIVE RestrictedPlusRow(_, _, _, _, _, _)
RestrictedPlusRow(ax, th, ty, s, y, x) ==
    IF ~(s.remaining > 0 /\ x < grid_x) THEN s
    ELSE LET c == RestrictedPlusCandidate(s.has_edu, th, y, x)
             z == grid_x * y + c
         IN  IF c = -1 THEN s
             ELSE IF SkipZone(ax, s.edus, z) THEN RestrictedPlusRow(ax, th, ty, s, y, c + 1)
             ELSE RestrictedPlusRow(ax, th, ty,
                     [edus |-> [s.edus EXCEPT ![RL[z]] = Append(@, z)],
                      has_edu |-> [s.has_edu EXCEPT ![z] = TRUE],
                      edu_type |-> [s.edu_type EXCEPT ![z] = ty],
                      remaining |-> s.remaining - 1,
                      positioned |-> TRUE],
                     y, c + IntTwiceSmallestRadius(ax))

RECURSIVE RestrictedPlusRows(_, _, _, _, _)
RestrictedPlusRows(ax, th, ty, s, y) ==
    IF ~(s.remaining > 0 /\ y < grid_y) THEN s
    ELSE RestrictedPlusRows(ax, th, ty, RestrictedPlusRow(ax, th, ty, s, y, 0), y + 1)

\* one pass over the grid of set_edus_positions_uniform_restricted_plus
RestrictedPlusPass(ax, th, ty, s) == RestrictedPlusRows(ax, th, ty, s, IntSmallestRadius(ax))

\* the arguments of the running restricted+ call
RpTarget == IF rp_type = EDU_TIGHT THEN n_edus_tight ELSE n_edus_loose
RpThreshold == IF rp_type = EDU_TIGHT THEN conn_threshold ELSE 0

(***************************************************************************)
(* Random positioning.                                                     *)
(***************************************************************************)
RECURSIVE Choices(_, _)
\* the lists random.choices(pool, k=k) can return
Choices(pool, k) ==
    IF k = 0 THEN {<<>>}
    ELSE {Append(c, z) : c \in Choices(pool, k - 1), z \in pool}

RECURSIVE RandomLists(_, _)
\* the values of grid['edus'][1..i] set_edus_positions_random can leave
RandomLists(e, i) ==
    IF i = 0 THEN {<<>>}
    ELSE {Append(l, c) : l \in RandomLists(e, i - 1),
                         c \in Choices({id \in ZonesInside : RL[id] = i}, e[i])}

(***************************************************************************)
(* Inputs of the positioning specification: classified grids.              *)
(***************************************************************************)
\* a pattern of zones, by number
Pattern(k, id) ==
    CASE k = 0 -> TRUE
      [] k = 1 -> FALSE
      [] k = 2 -> id % 2 = 0
      [] k = 3 -> id % 3 # 2
      [] k = 4 -> id % 2 = 1
      [] k = 5 -> id # 0
      [] OTHER -> id % 5 = 0

\* layouts: <<pattern of inside, pattern of is_road, pattern of dpconn = 1.0
\* (0.3 elsewhere), zone_size>>
Layouts ==
    << <<0, 0, 0, 100>>, <<0, 1, 0, 100>>, <<0, 2, 3, 100>>,
       <<3, 4, 0, 50>>,  <<0, 5, 2, 100>>, <<3, 3, 1, 100>>,
       <<0, 0, 4, 100>>, <<0, 6, 0, 50>> >>

\* the RL of zone id under the RL pattern q
RLPattern(q, m, gx, id) ==
    CASE q = 0 -> m
      [] q = 1 -> 1 + (id % m)
      [] OTHER -> 1 + ((id \div gx) % m)

Rat(a, b) == [n |-> a, d |-> b]

\* the main program before the positioning: add_roads was called once, no
\* spiral path yet, nothing written
InitRun ==
    /\ roads = <<>>
    /\ roads_points = Cardinality({id \in 0..(grid_x * grid_y - 1) : is_road[id]})
    /\ n_calls = 1
    /\ range_radius = 0
    /\ spiral_center = 0
    /\ spiral_path = <<>>
    /\ exit_status = -1
    /\ outputs = {}
    /\ cache_zones = FALSE
    /\ cache_file = <<>>
    /\ conf = RequiredKeys
    /\ pois_all = pois
    /\ time_classification = FALSE
    /\ last_edus = <<>>
    /\ task = NoTask /\ files = {} /\ n_tasks = 0

InitLoop ==
    /\ final_edus = [i \in 1..M |-> <<>>]
    /\ edus_remaining = 0
    /\ n_run = 0
    /\ edu_positioned = FALSE
    /\ rp_type = EDU_NONE

InitEdus ==
    /\ has_edu = [id \in 0..(grid_x * grid_y - 1) |-> FALSE]
    /\ edu_type = [id \in 0..(grid_x * grid_y - 1) |-> EDU_NONE]
    /\ urban_prob = [id \in 0..(grid_x * grid_y - 1) |-> 0]
    /\ edus = [i \in 1..M |-> <<>>]
    /\ Ax = [i \in 1..M |-> 0]
    /\ edus_by_rl = [i \in 1..M |-> 0]

\* a grid after classification, before the EDUs positioning algorithm runs
InitPlace ==
    /\ pc = "classified"
    /\ err = ""
    /\ grid_x \in 1..MaxGridX
    /\ grid_y \in (MaxGridY - 1)..MaxGridY
    /\ M \in 1..MaxM
    /\ n_edus_loose \in 0..MaxLoose
    /\ n_edus_tight \in 0..MaxTight
    /\ conn_threshold = 5
    /\ edu_alg \in {"random", "balanced", "enhanced", "restricted", "restricted_plus"}
    /\ \E l \in 1..Len(Layouts), q \in 0..2 :
        /\ zone_size = Layouts[l][4]
        /\ inside = [id \in 0..(grid_x * grid_y - 1) |-> Pattern(Layouts[l][1], id)]
        /\ is_road = [id \in 0..(grid_x * grid_y - 1) |-> Pattern(Layouts[l][2], id)]
        /\ dpconn = [id \in 0..(grid_x * grid_y - 1) |->
                        IF Pattern(Layouts[l][3], id) THEN 10 ELSE 3]
        /\ RL = [id \in 0..(grid_x * grid_y - 1) |-> RLPattern(q, M, grid_x, id)]
    /\ {id \in 0..(grid_x * grid_y - 1) : inside[id]} # {}
    /\ polygons = <<>>
    /\ pois = <<>>
    /\ risk = [id \in 0..(grid_x * grid_y - 1) |-> Rat(1, 1)]
    /\ elev_in = [on |-> FALSE, H |-> [id \in 0..(grid_x * grid_y - 1) |-> Rat(1, 1)]]
    /\ risk_elevation = [id \in 0..(grid_x * grid_y - 1) |-> <<>>]
    /\ InitEdus
    /\ InitLoop
    /\ InitRun

(***************************************************************************)
(* The EDUs positioning algorithms (edu_alg of the job descriptor).        *)
(***************************************************************************)
\* edu_alg = 'random': set_edus_positions_random
SetEdusPositionsRandom ==
    /\ pc = "classified"
    /\ edu_alg = "random"
    /\ TotalEdus <= MaxDraws
    /\ ~EdusByRLRaises(FALSE)
    /\ edus' \in RandomLists(NumberOfEdusByRL(TotalEdus, FALSE), M)
    /\ pc' = "positioned"
    /\ UNCHANGED <<err, inputVars, roadVars, spiralVars, workerVars, runVars, classVars, has_edu,
                 edu_type, urban_prob, Ax, edus_by_rl, loopVars>>

\* edu_alg = 'balanced': set_edus_positions_uniform(grid, UNBALANCED)
SetEdusPositionsUnbalanced ==
    /\ pc = "classified"
    /\ edu_alg = "balanced"
    /\ ~EdusByRLRaises(FALSE)
    /\ LET ax == ResetEdusDataAx(TotalEdus, FALSE)
       IN  /\ Ax' = ax
           /\ edus' = UniformUnbalanced(ax, EmptyEdus)
    /\ edus_by_rl' = ResetEdusDataEdus(TotalEdus, FALSE)
    /\ has_edu' = NoEdu
    /\ edu_type' = NoType
    /\ pc' = "positioned"
    /\ UNCHANGED <<err, inputVars, roadVars, spiralVars, workerVars, runVars, classVars,
                 urban_prob, loopVars>>

\* edu_alg = 'enhanced': set_edus_positions_uniform(grid, BALANCED)
SetEdusPositionsBalanced ==
    /\ pc = "classified"
    /\ edu_alg = "enhanced"
    /\ ~EdusByRLRaises(FALSE)
    /\ LET ax == ResetEdusDataAx(TotalEdus, FALSE)
           s == UniformBalanced(ax, [edus |-> EmptyEdus, has_edu |-> NoEdu])
       IN  /\ Ax' = ax
           /\ edus' = s.edus
           /\ has_edu' = s.has_edu
    /\ edus_by_rl' = ResetEdusDataEdus(TotalEdus, FALSE)
    /\ edu_type' = NoType
    /\ pc' = "positioned"
    /\ UNCHANGED <<err, inputVars, roadVars, spiralVars, workerVars, runVars, classVars,
                 urban_prob, loopVars>>

\* edu_alg = 'restricted': set_edus_positions_uniform(grid, RESTRICTED) up to
\* the first test of "while edus_remaining > 0"
SetEdusPositionsRestricted ==
    /\ pc = "classified"
    /\ edu_alg = "restricted"
    /\ ~EdusByRLRaises(FALSE)
    /\ Ax' = ResetEdusDataAx(TotalEdus, FALSE)
    /\ edus_by_rl' = ResetEdusDataEdus(TotalEdus, FALSE)
    /\ edus' = EmptyEdus
    /\ has_edu' = NoEdu
    /\ edu_type' = NoType
    /\ final_edus' = EmptyEdus
    /\ edus_remaining' = TotalEdus
    /\ n_run' = 0
    /\ pc' = "restricted"
    /\ UNCHANGED <<err, inputVars, roadVars, spiralVars, workerVars, runVars, classVars,
                 urban_prob, edu_positioned, rp_type>>

\* one iteration of "while edus_remaining > 0" of the restricted mode
RestrictedRun ==
    /\ pc = "restricted"
    /\ edus_remaining > 0
    /\ n_run < MaxRuns
    /\ LET ax == ResetEdusDataAx(edus_remaining, FALSE)
           s == RestrictedRunResult(ax, final_edus)
           fin == [i \in Levels |-> final_edus[i] \o s.edus[i]]
       IN  /\ Ax' = ax
           /\ has_edu' = s.has_edu
           /\ final_edus' = fin
           /\ edus_remaining' = TotalEdus - CountEdus(fin)
    /\ edus_by_rl' = ResetEdusDataEdus(edus_remaining, FALSE)
    /\ edus' = EmptyEdus
    /\ edu_type' = NoType
    /\ n_run' = n_run + 1
    /\ UNCHANGED <<pc, err, inputVars, roadVars, spiralVars, workerVars, runVars, classVars,
                 urban_prob, edu_positioned, rp_type>>

\* the loop of the restricted mode ends: final_edus moves to the grid
RestrictedDone ==
    /\ pc = "restricted"
    /\ edus_remaining <= 0
    /\ edus' = final_edus
    /\ pc' = "positioned"
    /\ UNCHANGED <<err, inputVars, roadVars, spiralVars, workerVars, runVars, classVars, has_edu,
                 edu_type, urban_prob, Ax, edus_by_rl, loopVars>>

\* edu_alg = 'restricted_plus': set_edus_positions_uniform(grid, RESTRICTED_PLUS)
\* up to the first loop test of the call for the tight EDUs
SetEdusPositionsRestrictedPlus ==
    /\ pc = "classified"
    /\ edu_alg = "restricted_plus"
    /\ ~EdusByRLRaises(FALSE)
    /\ Ax' = ResetEdusDataAx(TotalEdus, FALSE)
    /\ edus_by_rl' = ResetEdusDataEdus(TotalEdus, FALSE)
    /\ edus' = EmptyEdus
    /\ has_edu' = NoEdu
    /\ edu_type' = NoType
    /\ rp_type' = EDU_TIGHT
    /\ edus_remaining' = n_edus_tight
    /\ n_run' = 0
    /\ edu_positioned' = TRUE
    /\ pc' = "restricted_plus"
    /\ UNCHANGED <<err, inputVars, roadVars, spiralVars, workerVars, runVars, classVars,
                 urban_prob, final_edus>>

\* one iteration of "while edus_remaining > 0 and edu_positioned == True"
RestrictedPlusRun ==
    /\ pc = "restricted_plus"
    /\ edus_remaining > 0 /\ edu_positioned
    /\ ~EdusByRLRaises(TRUE)
    /\ LET ax == ResetEdusDataAx(RpTarget * (n_run + 1), TRUE)
           s == RestrictedPlusPass(ax, RpThreshold, rp_type,
                    [edus |-> edus, has_edu |-> has_edu, edu_type |-> edu_type,
                     remaining |-> edus_remaining, positioned |-> FALSE])
       IN  /\ Ax' = ax
           /\ edus' = s.edus
           /\ has_edu' = s.has_edu
           /\ edu_type' = s.edu_type
           /\ edus_remaining' = s.remaining
           /\ edu_positioned' = s.positioned
    /\ edus_by_rl' = ResetEdusDataEdus(RpTarget * (n_run + 1), TRUE)
    /\ urban_prob' = AreaUrbanProbability
    /\ n_run' = n_run + 1
    /\ UNCHANGED <<pc, err, inputVars, roadVars, spiralVars, workerVars, runVars, classVars,
                 final_edus, rp_type>>

\* reset_edus_data raises ZeroDivisionError in get_number_of_edus_by_RL: no
\* road zone inside the AoI
RestrictedPlusRaises ==
    /\ pc = "restricted_plus"
    /\ edus_remaining > 0 /\ edu_positioned
    /\ EdusByRLRaises(TRUE)
    /\ edu_positioned' = FALSE
    /\ n_run' = n_run + 1
    /\ pc' = "raised"
    /\ err' = "ZeroDivisionError"
    /\ UNCHANGED <<inputVars, roadVars, spiralVars, workerVars, runVars, classVars, eduVars,
                 final_edus, edus_remaining, rp_type>>

\* the call for the tight EDUs returns: the call for the loose EDUs starts
RestrictedPlusLoose ==
    /\ pc = "restricted_plus"
    /\ ~(edus_remaining > 0 /\ edu_positioned)
    /\ rp_type = EDU_TIGHT
    /\ rp_type' = EDU_LOOSE
    /\ edus_remaining' = n_edus_loose
    /\ n_run' = 0
    /\ edu_positioned' = TRUE
    /\ UNCHANGED <<pc, err, inputVars, roadVars, spiralVars, workerVars, runVars, classVars,
                 eduVars, final_edus>>

\* the call for the loose EDUs returns
RestrictedPlusDone ==
    /\ pc = "restricted_plus"
    /\ ~(edus_remaining > 0 /\ edu_positioned)
    /\ rp_type = EDU_LOOSE
    /\ pc' = "positioned"
    /\ UNCHANGED <<err, inputVars, roadVars, spiralVars, workerVars, runVars, classVars, eduVars,
                 loopVars>>

NextPlace ==
    \/ SetEdusPositionsRandom
    \/ SetEdusPositionsUnbalanced
    \/ SetEdusPositionsBalanced
    \/ SetEdusPositionsRestricted
    \/ RestrictedRun
    \/ RestrictedDone
    \/ SetEdusPositionsRestrictedPlus
    \/ RestrictedPlusRun
    \/ RestrictedPlusRaises
    \/ RestrictedPlusLoose
    \/ RestrictedPlusDone

SpecPlace == InitPlace /\ [][NextPlace]_vars

(***************************************************************************)
(* AoI masking: init_zones_by_polygon.                                     *)
(* A point is <<lon, lat>>; a ring is a sequence of points, closed as      *)
(* GeoJSON closes it (last point = first point).                           *)
(***************************************************************************)
PolyGrid == 3
RayLength == 180

\* zone['lon'], zone['lat']: the centre of the zone, in half zones
ZoneLon(id) == 2 * XOf(id) + 1
ZoneLat(id) == 2 * YOf(id) + 1

\* sign
Sign(x) == IF x < 0 THEN -1 ELSE IF x > 0 THEN 1 ELSE 0

\* polygon[i] with Python's indexing (polygon[-1] is the last point)
PyAt(polygon, i) == IF i < 0 THEN polygon[Len(polygon) + i + 1] ELSE polygon[i + 1]

\* sign(a2 * lon + b2 * lat + c2) of check_intersection, with b2 = -1 and
\* c2 = p1.lat - a2 * p1.lon, that is sign(a2 * (lon - p1.lon) - (lat - p1.lat)).
\* On a vertical line a2 = MAX_NUM = 10^10, so the first term decides
\* unless it is 0; elsewhere a2 = dlat / dlon, and the value is multiplied
\* by dlon to stay in the integers.
LineSide(lon, lat, p1, p2) ==
    LET dlat == p1[2] - p2[2]
        dlon == p1[1] - p2[1]
    IN  IF dlon = 0
        THEN IF lon # p1[1] THEN Sign(lon - p1[1]) ELSE Sign(p1[2] - lat)
        ELSE Sign(dlat * (lon - p1[1]) - (lat - p1[2]) * dlon) * Sign(dlon)

\* check_intersection(line1, line2): line1 from (lon, lat) to (lon + 180, lat)
CheckIntersection(lon, lat, p1, p2) ==
    LET f1_1 == Sign(lat - p1[2])
        f1_2 == Sign(lat - p2[2])
        f2_1 == LineSide(lon, lat, p1, p2)
        f2_2 == LineSide(lon + RayLength, lat, p1, p2)
    IN  f1_1 # f1_2 /\ f2_1 # f2_2

\* the test that selects the lines of the polygon to intersect
LineSelected(lon, lat, p1, p2) ==
    /\ p1[1] >= lon \/ p2[1] >= lon
    /\ \/ (p1[2] <= lat /\ lat <= p2[2])
       \/ (p2[2] <= lat /\ lat <= p1[2])

\* check_zone_in_polygon
CheckZoneInPolygon(lon, lat, polygon) ==
    LET intersec == Cardinality({i \in (-1)..(Len(polygon) - 2) :
                        /\ LineSelected(lon, lat, PyAt(polygon, i), PyAt(polygon, i + 1))
                        /\ CheckIntersection(lon, lat, PyAt(polygon, i), PyAt(polygon, i + 1))})
    IN  intersec % 2 = 1

\* check_zone_in_polygon_set
CheckZoneInPolygonSet(lon, lat, pols) ==
    \E k \in 1..Len(pols) : CheckZoneInPolygon(lon, lat, pols[k])

\* the corners, edge midpoints and centre of the grid
Vertex(k) == <<PolyGrid * (k % 3), PolyGrid * (k \div 3)>>

\* the triangles on these points, as closed rings
Triangles ==
    {<<Vertex(t[1]), Vertex(t[2]), Vertex(t[3]), Vertex(t[1])>> :
        t \in {u \in (0..8) \X (0..8) \X (0..8) :
                 /\ u[1] < u[2] /\ u[2] < u[3]
                 /\ (Vertex(u[2])[1] - Vertex(u[1])[1]) * (Vertex(u[3])[2] - Vertex(u[1])[2])
                      # (Vertex(u[3])[1] - Vertex(u[1])[1]) * (Vertex(u[2])[2] - Vertex(u[1])[2])}}

\* the polygon sets of the masking specification: none, a Polygon, and a
\* MultiPolygon of two rings
PolygonSets ==
    {<<>>} \cup {<<t>> : t \in Triangles}
           \cup {<<t, u>> : t \in Triangles, u \in {v \in Triangles : v[1] = Vertex(0) /\ v[3] = Vertex(8)}}

\* the grid after create_riskzones_grid, init_zones and add_polygon
InitPoly ==
    /\ pc = "built"
    /\ err = ""
    /\ grid_x = PolyGrid
    /\ grid_y = PolyGrid
    /\ M = 1
    /\ n_edus_loose = 0
    /\ n_edus_tight = 0
    /\ zone_size = 100
    /\ conn_threshold = 0
    /\ edu_alg = "balanced"
    /\ inside = [id \in 0..(grid_x * grid_y - 1) |-> TRUE]
    /\ RL = [id \in 0..(grid_x * grid_y - 1) |-> M]
    /\ is_road = [id \in 0..(grid_x * grid_y - 1) |-> FALSE]
    /\ dpconn = [id \in 0..(grid_x * grid_y - 1) |-> 0]
    /\ polygons \in PolygonSets
    /\ pois = <<>>
    /\ risk = [id \in 0..(grid_x * grid_y - 1) |-> Rat(1, 1)]
    /\ elev_in = [on |-> FALSE, H |-> [id \in 0..(grid_x * grid_y - 1) |-> Rat(1, 1)]]
    /\ risk_elevation = [id \in 0..(grid_x * grid_y - 1) |-> <<>>]
    /\ InitEdus
    /\ InitLoop
    /\ InitRun

\* init_zones_by_polygon
InitZonesByPolygon ==
    /\ pc = "built"
    /\ inside' = [id \in Ids |-> CheckZoneInPolygonSet(ZoneLon(id), ZoneLat(id), polygons)]
    /\ pc' = "masked"
    /\ UNCHANGED <<err, inputVars, roadVars, spiralVars, workerVars, runVars, RL, risk,
                 risk_elevation, eduVars, loopVars>>

\* len(grid['zones_inside']) == 0 after the masking: exit(EXIT_NO_ZONES)
ExitNoZones ==
    /\ pc = "masked"
    /\ ZonesInside = {}
    /\ pc' = "exit"
    /\ err' = "EXIT_NO_ZONES"
    /\ exit_status' = EXIT_NO_ZONES
    /\ UNCHANGED <<inputVars, roadVars, spiralVars, workerVars, outputs, cache_zones, cache_file,
                 conf, pois_all, time_classification, last_edus,
                 classVars, eduVars, loopVars>>

NextPoly ==
    \/ InitZonesByPolygon
    \/ ExitNoZones

SpecPoly == InitPoly /\ [][NextPoly]_vars

(***************************************************************************)
(* Risk computation: calculate_risk_from_pois, calculate_risk_from_        *)
(* elevation, normalize_risks, calculate_RL.                               *)
(***************************************************************************)
RiskGrid == 3
MaxRiskM == 4
RiskEdus == 4

RECURSIVE GCD(_, _)
GCD(a, b) == IF b = 0 THEN a ELSE GCD(b, a % b)

\* the rational n / d (d # 0) in lowest terms, with a positive denominator
RatNorm(n, d) ==
    LET g == GCD(Abs(n), Abs(d))
    IN  IF d > 0 THEN Rat(n \div g, d \div g) ELSE Rat((-n) \div g, (-d) \div g)

RatAdd(a, b) ==
    LET l == (a.d \div GCD(a.d, b.d)) * b.d
    IN  RatNorm(a.n * (l \div a.d) + b.n * (l \div b.d), l)
RatSub(a, b) == RatAdd(a, Rat(-b.n, b.d))
\* the products are taken after the common factors are removed
RatMul(a, b) ==
    LET g1 == GCD(Abs(a.n), b.d)
        g2 == GCD(Abs(b.n), a.d)
    IN  RatNorm((a.n \div g1) * (b.n \div g2), (a.d \div g2) * (b.d \div g1))
\* a / b, b # 0
RatDiv(a, b) == RatMul(a, IF b.n > 0 THEN Rat(b.d, b.n) ELSE Rat(-b.d, -b.n))

RECURSIVE FracGeq(_, _, _, _)
\* a / b >= p / q for a, p >= 0 and b, q > 0, by the integer parts and then
\* the remainders (no product is formed)
FracGeq(a, b, p, q) ==
    IF (a \div b) # (p \div q) THEN (a \div b) > (p \div q)
    ELSE IF p % q = 0 THEN TRUE
    ELSE IF a % b = 0 THEN FALSE
    ELSE FracGeq(q, p % q, b, a % b)

RatLeq(a, b) ==
    IF a.n <= 0 /\ b.n >= 0 THEN TRUE
    ELSE IF a.n > 0 /\ b.n <= 0 THEN FALSE
    ELSE IF a.n > 0 THEN FracGeq(b.n, b.d, a.n, a.d)
    ELSE FracGeq(-a.n, a.d, -b.n, b.d)

\* utils.__calculate_distance(zone, poi), squared, in square metres: half a
\* zone is zone_size / 2 metres
PoiDist2(id, poi) ==
    (zone_size \div 2) * (zone_size \div 2)
        * ((ZoneLon(id) - poi.lon) * (ZoneLon(id) - poi.lon)
            + (ZoneLat(id) - poi.lat) * (ZoneLat(id) - poi.lat))

\* poi['badpoi'] (osmpois.py: False if w >= 0 else True)
BadPoi(poi) == poi.weight < 0

RECURSIVE RiskSum(_, _)
\* the variable sum of calculate_risk_of_zone after the first k PoIs (no
\* division by zero among them)
RiskSum(id, k) ==
    IF k = 0 THEN Rat(0, 1)
    ELSE IF BadPoi(pois[k])
         THEN RatAdd(RiskSum(id, k - 1), RatNorm(PoiDist2(id, pois[k]), pois[k].weight))
         ELSE RatAdd(RiskSum(id, k - 1), RatNorm(pois[k].weight, PoiDist2(id, pois[k])))

\* calculate_risk_of_zone raises ZeroDivisionError: a good PoI at distance
\* 0, or 1 / sum with sum = 0
RiskOfZoneRaises(id) ==
    IF \E k \in 1..Len(pois) : ~BadPoi(pois[k]) /\ PoiDist2(id, pois[k]) = 0
    THEN TRUE
    ELSE RiskSum(id, Len(pois)).n = 0

\* calculate_risk_of_zone
CalculateRiskOfZone(id) == RatDiv(Rat(1, 1), RiskSum(id, Len(pois)))

\* normalize_risks without its search for the minimum: min stays the risk of
\* the first zone inside the AoI
MinRiskFirst == risk[CHOOSE a \in ZonesInside : \A b \in ZonesInside : a <= b]

\* min and max of normalize_risks
MinRisk == CHOOSE r \in {risk[id] : id \in ZonesInside} :
               \A id \in ZonesInside : RatLeq(r, risk[id])
MaxRisk == CHOOSE r \in {risk[id] : id \in ZonesInside} :
               \A id \in ZonesInside : RatLeq(risk[id], r)
Amplitude == IF RatSub(MaxRisk, MinRisk).n = 0 THEN Rat(1, 1) ELSE RatSub(MaxRisk, MinRisk)

\* e^k for k = 1..5 as <<numerator, denominator>>, rounded down
ExpFrac ==
    << <<271828182, 100000000>>, <<738905609, 100000000>>, <<2008553692, 100000000>>,
       <<545981500, 10000000>>, <<1484131591, 10000000>> >>

\* abs(math.log(c)) >= k, for a rational c > 0 and k >= 1: c >= e^k or c <= e^-k
AbsLogAtLeast(c, k) ==
    \/ FracGeq(c.n, c.d, ExpFrac[k][1], ExpFrac[k][2])
    \/ FracGeq(c.d, c.n, ExpFrac[k][1], ExpFrac[k][2])

RECURSIVE AbsIntLogFrom(_, _, _)
AbsIntLogFrom(c, k, cap) ==
    IF k < cap /\ AbsLogAtLeast(c, k + 1) THEN AbsIntLogFrom(c, k + 1, cap) ELSE k

RECURSIVE Pow10(_)
Pow10(k) == IF k = 0 THEN 1 ELSE 10 * Pow10(k - 1)

RECURSIVE AbsIntLog10From(_, _, _)
AbsIntLog10From(c, k, cap) ==
    IF k < cap /\ (FracGeq(c.n, c.d, Pow10(k + 1), 1) \/ FracGeq(c.d, c.n, Pow10(k + 1), 1))
    THEN AbsIntLog10From(c, k + 1, cap) ELSE k

\* calculate_RL with math.log10 in place of math.log
AbsIntLog10(c, cap) == AbsIntLog10From(c, 0, cap)

\* min(abs(int(math.log(c))), cap): int truncates towards 0, so the value is
\* the number of k >= 1 with abs(math.log(c)) >= k
AbsIntLog(c, cap) == AbsIntLogFrom(c, 0, cap)

\* combined_risk of calculate_RL
CombinedRisk(id) ==
    IF risk_elevation[id] # <<>> THEN RatMul(risk[id], risk_elevation[id][1]) ELSE risk[id]

\* calculate_RL with min(..., grid['M']) in place of min(..., grid['M'] - 1)
RLOfZoneCapM(id) ==
    IF risk[id].n = 0 THEN 1 ELSE M - AbsIntLog(CombinedRisk(id), M)

\* the RL calculate_RL gives the zone
RLOfZone(id) ==
    IF risk[id].n = 0 THEN 1 ELSE M - AbsIntLog(CombinedRisk(id), M - 1)

\* the PoIs of the risk specification
PoiPoints == {0, 2, 3, 5} \X {0, 3, 4}
PoiWeights == {-2, -1, 1, 2}
PoiLists ==
    {<<>>}
    \cup {<<[lon |-> p[1], lat |-> p[2], weight |-> w]>> : p \in PoiPoints, w \in PoiWeights}
    \cup {<<[lon |-> 2, lat |-> 3, weight |-> 1], [lon |-> 2, lat |-> 3, weight |-> w]>> :
              w \in {1, 2}}

\* a good and a bad PoI together (on a grid of zones of 2 metres)
MixedPoiLists ==
    {<<[lon |-> 2, lat |-> 3, weight |-> v], [lon |-> p[1], lat |-> p[2], weight |-> -w]>> :
        p \in {<<5, 4>>, <<0, 0>>}, v \in {1, 2}, w \in {1, 2}}

\* the values H of calculate_risk_of_zone_elevation on three terrains
ElevationRisk(h, id) ==
    CASE h = 1 -> Rat(1, 1)
      [] h = 2 -> (CASE id % 3 = 0 -> Rat(1, 2) [] id % 3 = 1 -> Rat(2, 1) [] OTHER -> Rat(1, 10))
      [] OTHER -> (CASE id % 2 = 0 -> Rat(5, 2) [] OTHER -> Rat(1, 3))

\* the grid after the AoI masking, PoIs added
InitRisk ==
    /\ pc = "masked"
    /\ err = ""
    /\ grid_x = RiskGrid
    /\ grid_y = RiskGrid
    /\ M \in 1..MaxRiskM
    /\ n_edus_loose = RiskEdus
    /\ n_edus_tight = 0
    /\ \/ zone_size = 100 /\ pois \in PoiLists
       \/ zone_size = 2 /\ pois \in MixedPoiLists
    /\ conn_threshold = 0
    /\ edu_alg = "balanced"
    /\ \E k \in {0, 5} : inside = [id \in 0..(grid_x * grid_y - 1) |-> Pattern(k, id)]
    /\ RL = [id \in 0..(grid_x * grid_y - 1) |-> M]
    /\ is_road = [id \in 0..(grid_x * grid_y - 1) |-> FALSE]
    /\ dpconn = [id \in 0..(grid_x * grid_y - 1) |-> 0]
    /\ polygons = <<>>
    /\ risk = [id \in 0..(grid_x * grid_y - 1) |-> Rat(1, 1)]
    /\ \E h \in 0..3 :
          elev_in = [on |-> h # 0,
                     H |-> [id \in 0..(grid_x * grid_y - 1) |-> ElevationRisk(h, id)]]
    /\ risk_elevation = [id \in 0..(grid_x * grid_y - 1) |-> <<>>]
    /\ InitEdus
    /\ InitLoop
    /\ InitRun

\* calculate_risk_from_pois
CalculateRiskFromPois ==
    /\ pc \in {"masked", "pois_checked"}
    /\ \A id \in ZonesInside : pois # <<>> => ~RiskOfZoneRaises(id)
    /\ risk' = [id \in Ids |-> IF pois # <<>> /\ inside[id]
                               THEN CalculateRiskOfZone(id) ELSE risk[id]]
    /\ pc' = "risk_pois"
    /\ UNCHANGED <<err, inputVars, roadVars, spiralVars, workerVars, runVars, inside, RL,
                 risk_elevation, eduVars, loopVars>>

\* calculate_risk_from_pois: calculate_risk_of_zone divides by zero
CalculateRiskFromPoisRaises ==
    /\ pc = "masked"
    /\ pois # <<>>
    /\ \E id \in ZonesInside : RiskOfZoneRaises(id)
    /\ pc' = "raised"
    /\ err' = "ZeroDivisionError"
    /\ UNCHANGED <<inputVars, roadVars, spiralVars, workerVars, runVars, classVars, eduVars,
                 loopVars>>

\* calculate_risk_from_elevation ('output_elevation' in conf)
CalculateRiskFromElevation ==
    /\ pc = "risk_pois"
    /\ elev_in.on
    /\ risk_elevation' = [id \in Ids |-> IF pois # <<>> /\ inside[id]
                                         THEN <<elev_in.H[id]>> ELSE risk_elevation[id]]
    /\ pc' = "risk_elev"
    /\ UNCHANGED <<err, inputVars, roadVars, spiralVars, workerVars, runVars, inside, RL, risk,
                 eduVars, loopVars>>

\* normalize_risks
NormalizeRisks ==
    /\ pc = "risk_elev" \/ (pc = "risk_pois" /\ ~elev_in.on)
    /\ risk' = [id \in Ids |-> IF inside[id]
                               THEN RatDiv(RatSub(risk[id], MinRisk), Amplitude)
                               ELSE risk[id]]
    /\ pc' = "normalized"
    /\ UNCHANGED <<err, inputVars, roadVars, spiralVars, workerVars, runVars, inside, RL,
                 risk_elevation, eduVars, loopVars>>

\* calculate_RL
CalculateRL ==
    /\ pc = "normalized"
    /\ RL' = [id \in Ids |-> IF inside[id] THEN RLOfZone(id) ELSE RL[id]]
    /\ pc' = "classified"
    /\ UNCHANGED <<err, inputVars, roadVars, spiralVars, workerVars, runVars, inside, risk,
                 risk_elevation, eduVars, loopVars>>

NextRisk ==
    \/ CalculateRiskFromPois
    \/ CalculateRiskFromPoisRaises
    \/ CalculateRiskFromElevation
    \/ NormalizeRisks
    \/ CalculateRL
    \/ SetEdusPositionsUnbalanced

SpecRisk == InitRisk /\ [][NextRisk]_vars

(***************************************************************************)
(* Roads: add_roads, coordinates_to_id, move_zones_x, move_zones_y.        *)
(* A point is <<lon, lat>> in half zones from the left bottom corner:      *)
(* grid['left'] = grid['bottom'] = 0, grid['right'] = 2 * grid_x,          *)
(* grid['top'] = 2 * grid_y.                                               *)
(***************************************************************************)
RoadGrid == 3
MaxCalls == 2

\* int(a / b) for b > 0: the quotient truncated towards 0
IntDiv(a, b) == IF a >= 0 THEN a \div b ELSE -((-a) \div b)

\* coordinates_to_id: int(prop_x * grid_x) = int(lon / 2)
CoordinatesToId(lat, lon) == IntDiv(lat, 2) * grid_x + IntDiv(lon, 2)

\* the test with the start point alone
RoadStartOutsideGrid(road) ==
    \/ road.start[2] < 0 \/ road.start[2] > 2 * grid_y
    \/ road.start[1] < 0 \/ road.start[1] > 2 * grid_x

\* "Ignore points outside the grid": the test that skips a road
RoadOutsideGrid(road) ==
    \/ road.start[2] < 0 \/ road.start[2] > 2 * grid_y
    \/ road.end[2] < 0 \/ road.end[2] > 2 * grid_y
    \/ road.start[1] < 0 \/ road.start[1] > 2 * grid_x
    \/ road.end[1] < 0 \/ road.end[1] > 2 * grid_x

\* the steps <<n, d>> (step_y or step_x = n / d, for d <= 5) whose float sum
\* stays at 0.9999999999999999 where the exact sum reaches 1
FloatShortOfOne == {<<2, 3>>, <<3, 5>>}

RECURSIVE MoveZones(_, _, _, _, _, _, _, _, _, _)
\* the loop "while dist <= prev_dist" of move_zones_x (main = num_x, side =
\* num_y) and of move_zones_y (main = num_y, side = num_x); delta is counted
\* in units of 1 / den, the distances are squared
MoveZones(isr, b, main, side, step, den, id, delta, prev_dist, dist) ==
    IF ~(dist <= prev_dist) THEN isr
    ELSE LET d1 == delta + step
             turn == IF Abs(d1) = den /\ <<Abs(step), den>> \in FloatShortOfOne
                     THEN FALSE ELSE Abs(d1) >= den
             id1 == IF turn THEN id + main + side ELSE id + main
             d2 == IF turn THEN d1 - Sign(d1) * den ELSE d1
         IN  IF id1 < 0 \/ id1 > NZones THEN isr
             ELSE IF id1 = NZones THEN isr
             ELSE MoveZones([isr EXCEPT ![id1] = TRUE], b, main, side, step, den,
                            id1, d2, dist, GridDist2(id1, b))

\* move_zones_x
MoveZonesX(isr, a, b, dist_x, dist_y) ==
    IF dist_x = 0 THEN isr
    ELSE MoveZones(isr, b, Sign(dist_x), grid_x * Sign(dist_y),
                   IF dist_y > 0 THEN dist_y + 1 ELSE dist_y - 1, Abs(dist_x) + 1,
                   a, 0, GridDist2(a, b), GridDist2(a, b))

\* move_zones_y
MoveZonesY(isr, a, b, dist_x, dist_y) ==
    IF dist_y = 0 THEN isr
    ELSE MoveZones(isr, b, grid_x * Sign(dist_y), Sign(dist_x),
                   IF dist_x > 0 THEN dist_x + 1 ELSE dist_x - 1, Abs(dist_y) + 1,
                   a, 0, GridDist2(a, b), GridDist2(a, b))

\* one iteration of "for road in roads": is_road after it
AddRoad(isr, road) ==
    IF RoadOutsideGrid(road) THEN isr
    ELSE LET a == CoordinatesToId(road.start[2], road.start[1])
             b == CoordinatesToId(road.end[2], road.end[1])
             dist_x == (b % grid_x) - (a % grid_x)
             dist_y == (b \div grid_x) - (a \div grid_x)
             moved == IF Abs(dist_x) >= Abs(dist_y)
                      THEN MoveZonesX(isr, a, b, dist_x, dist_y)
                      ELSE MoveZonesY(isr, a, b, dist_x, dist_y)
         IN  IF a < 0 \/ b < 0 \/ a >= NZones \/ b >= NZones THEN isr
             ELSE [moved EXCEPT ![a] = TRUE, ![b] = TRUE]

RECURSIVE AddRoadsTo(_, _, _)
\* is_road after the first k roads of the list rs
AddRoadsTo(isr, rs, k) ==
    IF k = 0 THEN isr ELSE AddRoad(AddRoadsTo(isr, rs, k - 1), rs[k])

\* the points roads start and end at: centres of zones, points of the
\* boundary of the grid and points outside it
RoadPoints ==
    {<<1, 1>>, <<2 * grid_x - 1, 1>>, <<3, 2 * grid_y - 1>>, <<1, 3>>,
     <<0, 0>>, <<2 * grid_x, 3>>, <<3, 2 * grid_y>>,
     <<-1, 3>>, <<3, 2 * grid_y + 1>>}

RoadSegments == {[start |-> p, end |-> q] : p, q \in RoadPoints}

\* the lists of roads of a call
RoadLists ==
    {<<>>}
    \cup {<<r>> : r \in RoadSegments}
    \cup {<<r, [start |-> <<1, 3>>, end |-> <<2 * grid_x - 1, 1>>]>> :
              r \in {t \in RoadSegments : t.start = <<1, 1>>}}

\* the grid after create_riskzones_grid and init_zones
InitRoads ==
    /\ pc = "init"
    /\ err = ""
    /\ grid_x \in RoadGrid..(RoadGrid + 1)
    /\ grid_y = RoadGrid
    /\ M = 1
    /\ n_edus_loose = 0
    /\ n_edus_tight = 0
    /\ zone_size = 100
    /\ conn_threshold = 0
    /\ edu_alg = "balanced"
    /\ inside = [id \in 0..(grid_x * grid_y - 1) |-> TRUE]
    /\ RL = [id \in 0..(grid_x * grid_y - 1) |-> M]
    /\ is_road = [id \in 0..(grid_x * grid_y - 1) |-> FALSE]
    /\ dpconn = [id \in 0..(grid_x * grid_y - 1) |-> 0]
    /\ polygons = <<>>
    /\ pois = <<>>
    /\ risk = [id \in 0..(grid_x * grid_y - 1) |-> Rat(1, 1)]
    /\ elev_in = [on |-> FALSE, H |-> [id \in 0..(grid_x * grid_y - 1) |-> Rat(1, 1)]]
    /\ risk_elevation = [id \in 0..(grid_x * grid_y - 1) |-> <<>>]
    /\ InitEdus
    /\ InitLoop
    /\ roads = <<>>
    /\ roads_points = 0
    /\ n_calls = 0
    /\ range_radius = 0
    /\ spiral_center = 0
    /\ spiral_path = <<>>
    /\ exit_status = -1
    /\ outputs = {}
    /\ cache_zones = FALSE
    /\ cache_file = <<>>
    /\ conf = RequiredKeys
    /\ pois_all = pois
    /\ time_classification = FALSE
    /\ last_edus = <<>>
    /\ task = NoTask /\ files = {} /\ n_tasks = 0

\* add_roads(grid, roads)
AddRoads ==
    /\ pc \in {"init", "roads_added"}
    /\ n_calls < MaxCalls
    /\ \E rs \in RoadLists :
          LET isr == AddRoadsTo(is_road, rs, Len(rs))
          IN  /\ roads' = rs
              /\ is_road' = isr
              /\ roads_points' = roads_points + Cardinality({id \in Ids : isr[id]})
    /\ n_calls' = n_calls + 1
    /\ pc' = "roads_added"
    /\ UNCHANGED <<err, grid_x, grid_y, M, n_edus_loose, n_edus_tight, zone_size,
                   conn_threshold, edu_alg, dpconn, polygons, pois, elev_in,
                   classVars, eduVars, loopVars, spiralVars, workerVars, runVars>>

NextRoads == AddRoads

SpecRoads == InitRoads /\ [][NextRoads]_vars

(***************************************************************************)
(* The spiral path on its own: utils.__get_spiral_path(grid, range_radius) *)
(* for an integer range_radius, walked from the zone spiral_center.        *)
(***************************************************************************)
SpiralGrid == 7
MaxRadius == 3

InitSpiral ==
    /\ pc = "init"
    /\ err = ""
    /\ grid_x \in (SpiralGrid - 1)..SpiralGrid
    /\ grid_y = SpiralGrid
    /\ M = 1
    /\ n_edus_loose = 0
    /\ n_edus_tight = 0
    /\ zone_size = 100
    /\ conn_threshold = 0
    /\ edu_alg = "restricted"
    /\ inside = [id \in 0..(grid_x * grid_y - 1) |-> TRUE]
    /\ RL = [id \in 0..(grid_x * grid_y - 1) |-> M]
    /\ is_road = [id \in 0..(grid_x * grid_y - 1) |-> FALSE]
    /\ dpconn = [id \in 0..(grid_x * grid_y - 1) |-> 0]
    /\ polygons = <<>>
    /\ pois = <<>>
    /\ risk = [id \in 0..(grid_x * grid_y - 1) |-> Rat(1, 1)]
    /\ elev_in = [on |-> FALSE, H |-> [id \in 0..(grid_x * grid_y - 1) |-> Rat(1, 1)]]
    /\ risk_elevation = [id \in 0..(grid_x * grid_y - 1) |-> <<>>]
    /\ InitEdus
    /\ InitLoop
    /\ roads = <<>>
    /\ roads_points = 0
    /\ n_calls = 1
    /\ range_radius \in 1..MaxRadius
    /\ spiral_center \in 0..(grid_x * grid_y - 1)
    /\ spiral_path = <<>>
    /\ exit_status = -1
    /\ outputs = {}
    /\ cache_zones = FALSE
    /\ cache_file = <<>>
    /\ conf = RequiredKeys
    /\ pois_all = pois
    /\ time_classification = FALSE
    /\ last_edus = <<>>
    /\ task = NoTask /\ files = {} /\ n_tasks = 0

\* steps = utils.__get_spiral_path(grid, range_radius)
GetSpiralPathCall ==
    /\ pc = "init"
    /\ spiral_path' = GetSpiralPath((2 * range_radius + 1) * (2 * range_radius + 1) - 1)
    /\ pc' = "spiral"
    /\ UNCHANGED <<err, inputVars, classVars, eduVars, loopVars, roadVars,
                   range_radius, spiral_center, workerVars, runVars>>

NextSpiral == GetSpiralPathCall

SpecSpiral == InitSpiral /\ [][NextSpiral]_vars

(***************************************************************************)
(* The main program, from the grid to the output files, run again and      *)
(* again on the same configuration file.                                   *)
(***************************************************************************)
MainEdus == 2
MainM == 2

\* the keys of conf that name a file written after the positioning
OutputKeys == {"res_data", "output_edus", "output_pois", "output_roads"}

\* conf['cache_zones'] == True and os.path.isfile(cache_filename)
CacheFound == cache_zones /\ cache_file # <<>>

\* a test that never sees an empty AoI
ZonesAlwaysFound == FALSE

\* len(grid['zones_inside']) == 0
NoZonesToClassify == ZonesInside = {}

\* an AoI beyond the top right corner of the bounding box
FarPolygon ==
    LET c == 2 * PolyGrid + 1
    IN  <<<<c, c>>, <<c + 2, c>>, <<c, c + 2>>, <<c, c>>>>

\* the job descriptors of the runs: every polygon set with a complete
\* descriptor and no PoI; a few polygon sets with or without a PoI, with a
\* descriptor that lacks at most one required key and has some optional ones
MainInputs ==
    {[polygons |-> p, pois |-> <<>>, conf |-> RequiredKeys \cup {"geojson"}] :
        p \in PolygonSets \cup {<<FarPolygon>>}}
    \cup
    {[polygons |-> p, pois |-> q, conf |-> (RequiredKeys \ miss) \cup opt] :
        p \in {<<>>, <<FarPolygon>>, <<<<Vertex(0), Vertex(2), Vertex(6), Vertex(0)>>>>},
        q \in {<<>>, <<[lon |-> 2, lat |-> 3, weight |-> 1]>>,
               <<[lon |-> 5, lat |-> 4, weight |-> 1]>>},
        miss \in {{}, {"left"}, {"cache_zones"}, {"edu_alg"}, {"output"}},
        opt \in {{"geojson"} \cup o : o \in SUBSET {"pois_use_all", "res_data"}}
                \cup {{}, OutputKeys \cup {"geojson"}}}

\* the program is started: the configuration file is loaded
InitMain ==
    /\ pc = "start"
    /\ err = ""
    /\ grid_x = PolyGrid
    /\ grid_y = PolyGrid
    /\ M \in 1..MainM
    /\ n_edus_loose = MainEdus
    /\ n_edus_tight = 0
    /\ zone_size = 100
    /\ conn_threshold = 0
    /\ edu_alg = "balanced"
    /\ inside = [id \in 0..(grid_x * grid_y - 1) |-> TRUE]
    /\ RL = [id \in 0..(grid_x * grid_y - 1) |-> M]
    /\ is_road = [id \in 0..(grid_x * grid_y - 1) |-> FALSE]
    /\ dpconn = [id \in 0..(grid_x * grid_y - 1) |-> 0]
    /\ \E in \in MainInputs :
          /\ polygons = in.polygons
          /\ pois_all = in.pois
          /\ pois = in.pois
          /\ conf = in.conf
          /\ cache_zones \in (IF "cache_zones" \in in.conf THEN BOOLEAN ELSE {FALSE})
    /\ risk = [id \in 0..(grid_x * grid_y - 1) |-> Rat(1, 1)]
    /\ elev_in = [on |-> FALSE, H |-> [id \in 0..(grid_x * grid_y - 1) |-> Rat(1, 1)]]
    /\ risk_elevation = [id \in 0..(grid_x * grid_y - 1) |-> <<>>]
    /\ InitEdus
    /\ InitLoop
    /\ roads = <<>>
    /\ roads_points = 0
    /\ n_calls = 1
    /\ range_radius = 0
    /\ spiral_center = 0
    /\ spiral_path = <<>>
    /\ exit_status = -1
    /\ outputs = {}
    /\ cache_file = <<>>
    /\ time_classification = FALSE
    /\ last_edus = <<>>
    /\ task = NoTask /\ files = {} /\ n_tasks = 0

\* create_riskzones_grid, init_zones, extract_pois, add_pois and add_roads
CreateGrid ==
    /\ pc = "start"
    /\ {"left", "bottom", "right", "top", "zone_size", "M", "edus", "pois_types"}
          \subseteq conf
    /\ pc' = "built"
    /\ UNCHANGED <<err, inputVars, roadVars, spiralVars, workerVars, runVars, classVars, eduVars,
                   loopVars>>

\* the cache file is there: load_zones instead of the GeoJSON file
\* a load_zones that leaves grid['zones_inside'] as init_zones made it
LoadZonesKeepInside ==
    /\ pc = "built"
    /\ "cache_zones" \in conf
    /\ CacheFound
    /\ LET zones == [k \in 1..Len(cache_file) |->
                        CHOOSE z \in Range(cache_file) :
                            Cardinality({y \in Range(cache_file) : y.id < z.id}) = k - 1]
       IN  /\ RL' = [id \in Ids |-> zones[id + 1].RL]
           /\ risk' = [id \in Ids |-> zones[id + 1].risk]
           /\ risk_elevation' = [id \in Ids |-> zones[id + 1].risk_elevation]
    /\ pc' = "classified"
    /\ UNCHANGED <<err, inside, inputVars, roadVars, spiralVars, workerVars, runVars, eduVars, loopVars>>

LoadZones ==
    /\ pc = "built"
    /\ "cache_zones" \in conf
    /\ CacheFound
    /\ LET zones == [k \in 1..Len(cache_file) |->
                        CHOOSE z \in Range(cache_file) :
                            Cardinality({y \in Range(cache_file) : y.id < z.id}) = k - 1]
       IN  /\ inside' = [id \in Ids |-> zones[id + 1].inside]
           /\ RL' = [id \in Ids |-> zones[id + 1].RL]
           /\ risk' = [id \in Ids |-> zones[id + 1].risk]
           /\ risk_elevation' = [id \in Ids |-> zones[id + 1].risk_elevation]
    /\ pc' = "classified"
    /\ UNCHANGED <<err, inputVars, roadVars, spiralVars, workerVars, runVars, eduVars, loopVars>>

\* no cache file: the GeoJSON file is read and init_zones_by_polygon runs
MainInitZonesByPolygon ==
    /\ "cache_zones" \in conf
    /\ ~CacheFound
    /\ "geojson" \in conf
    /\ InitZonesByPolygon

\* no cache file and no key 'geojson' in conf: KeyError is caught, the zones
\* and the PoIs stay as init_zones and add_pois left them
NoGeoJSON ==
    /\ pc = "built"
    /\ "cache_zones" \in conf
    /\ ~CacheFound
    /\ "geojson" \notin conf
    /\ pc' = "pois_checked"
    /\ UNCHANGED <<err, inputVars, roadVars, spiralVars, workerVars, runVars, classVars, eduVars,
                   loopVars>>

\* the PoIs are never filtered by the AoI
InitPoisByPolygonKeepAll ==
    /\ pc = "masked"
    /\ ~NoZonesToClassify
    /\ pc' = "pois_checked"
    /\ UNCHANGED <<err, inputVars, roadVars, spiralVars, workerVars, runVars, classVars, eduVars,
                   loopVars>>

\* zones inside the AoI: init_pois_by_polygon unless conf has pois_use_all
InitPoisByPolygon ==
    /\ pc = "masked"
    /\ ~NoZonesToClassify
    /\ pois' = IF "pois_use_all" \in conf THEN pois
               ELSE SelectSeq(pois_all,
                        LAMBDA p : CheckZoneInPolygonSet(p.lon, p.lat, polygons))
    /\ pc' = "pois_checked"
    /\ UNCHANGED <<err, grid_x, grid_y, M, n_edus_loose, n_edus_tight, zone_size,
                   conn_threshold, edu_alg, is_road, dpconn, polygons, elev_in,
                   roadVars, spiralVars, workerVars, runVars, classVars, eduVars, loopVars>>

\* the classification starts
MainClassify ==
    /\ pc = "pois_checked"
    /\ CalculateRiskFromPois

\* calculate_RL, and time_classification is bound
MainCalculateRL ==
    /\ pc = "normalized"
    /\ RL' = [id \in Ids |-> IF inside[id] THEN RLOfZone(id) ELSE RL[id]]
    /\ time_classification' = TRUE
    /\ pc' = "classified"
    /\ UNCHANGED <<err, inputVars, roadVars, spiralVars, workerVars, exit_status, outputs,
                   cache_zones, cache_file, conf, pois_all, last_edus, inside, risk,
                   risk_elevation, eduVars, loopVars>>

\* "Write cache file": json.dump(grid['zones'])
WriteCacheFile ==
    /\ pc = "classified"
    /\ cache_zones /\ cache_file = <<>>
    /\ cache_file' = [k \in 1..NZones |->
                        [id |-> k - 1, inside |-> inside[k - 1], RL |-> RL[k - 1],
                         risk |-> risk[k - 1], risk_elevation |-> risk_elevation[k - 1]]]
    /\ UNCHANGED <<pc, err, inputVars, roadVars, spiralVars, workerVars, exit_status, outputs,
                   cache_zones, conf, pois_all, time_classification, last_edus,
                   classVars, eduVars, loopVars>>

\* "Run EDUs positioning algorithm", after the cache file
MainSetEdusPositions ==
    /\ cache_zones => cache_file # <<>>
    /\ "edu_alg" \in conf
    /\ SetEdusPositionsUnbalanced

\* "Writing output CSV files": the files of the keys conf has, then
\* exit(EXIT_OK)
WriteOutputs ==
    /\ pc = "positioned"
    /\ "output" \in conf
    /\ "res_data" \in conf => time_classification
    /\ outputs' = {"output"} \cup (conf \cap OutputKeys)
    /\ last_edus' = edus
    /\ exit_status' = EXIT_OK
    /\ pc' = "done"
    /\ UNCHANGED <<err, inputVars, roadVars, spiralVars, workerVars, cache_zones, cache_file,
                   conf, pois_all, time_classification, classVars, eduVars, loopVars>>

\* an exception that no except clause of the main program catches: KeyError
\* of conf[...] on a missing key, NameError of time_classification in the
\* results data of a run that loaded the cache file; the interpreter prints
\* the traceback and exits with status 1
MainRaises ==
    /\ \/ pc = "start" /\ ~({"left", "bottom", "right", "top", "zone_size", "M", "edus",
                            "pois_types"} \subseteq conf)
       \/ pc = "built" /\ "cache_zones" \notin conf
       \/ pc = "classified" /\ (cache_zones => cache_file # <<>>) /\ "edu_alg" \notin conf
       \/ pc = "positioned" /\ "res_data" \in conf /\ ~time_classification
       \/ pc = "positioned" /\ "output" \notin conf
    /\ err' = IF pc = "positioned" /\ "res_data" \in conf /\ ~time_classification
              THEN "NameError" ELSE "KeyError"
    /\ outputs' = IF pc = "positioned" /\ "res_data" \in conf /\ time_classification
                  THEN {"res_data"} ELSE outputs
    /\ exit_status' = 1
    /\ pc' = "raised"
    /\ UNCHANGED <<inputVars, roadVars, spiralVars, workerVars, cache_zones, cache_file, conf,
                   pois_all, time_classification, last_edus, classVars, eduVars,
                   loopVars>>

\* the program is started again on the same configuration file
RunAgain ==
    /\ pc \in {"exit", "done", "raised"}
    /\ pc' = "start"
    /\ err' = ""
    /\ pois' = pois_all
    /\ inside' = [id \in Ids |-> TRUE]
    /\ RL' = [id \in Ids |-> M]
    /\ risk' = [id \in Ids |-> Rat(1, 1)]
    /\ risk_elevation' = [id \in Ids |-> <<>>]
    /\ has_edu' = NoEdu
    /\ edu_type' = NoType
    /\ urban_prob' = [id \in Ids |-> 0]
    /\ edus' = EmptyEdus
    /\ Ax' = [i \in Levels |-> 0]
    /\ edus_by_rl' = [i \in Levels |-> 0]
    /\ exit_status' = -1
    /\ outputs' = {}
    /\ time_classification' = FALSE
    /\ UNCHANGED <<grid_x, grid_y, M, n_edus_loose, n_edus_tight, zone_size,
                   conn_threshold, edu_alg, is_road, dpconn, polygons, elev_in,
                   roadVars, spiralVars, workerVars, cache_zones, cache_file, conf, pois_all,
                   last_edus, loopVars>>

NextMain ==
    \/ CreateGrid
    \/ LoadZones
    \/ MainInitZonesByPolygon
    \/ NoGeoJSON
    \/ ExitNoZones
    \/ InitPoisByPolygon
    \/ MainClassify
    \/ NormalizeRisks
    \/ MainCalculateRL
    \/ WriteCacheFile
    \/ MainSetEdusPositions
    \/ WriteOutputs
    \/ MainRaises
    \/ RunAgain

SpecMain == InitMain /\ [][NextMain]_vars

\* the positions of a run that has ended: exit(), the end of the script, or
\* an exception nobody catches
MainEnded == {"exit", "done", "raised"}

\* the interpreter goes on to the next stage of the script: every stage is a
\* call that returns, so a run that has not ended does not stay where it is
MainAdvances ==
    /\ pc \notin MainEnded
    /\ pc' \in {"built", "masked", "pois_checked", "risk_pois", "normalized",
               "classified", "positioned"} \cup MainEnded
    /\ pc' # pc

SpecMainLive == SpecMain /\ WF_pc(MainAdvances)

(***************************************************************************)
(* The worker daemon (src/cityzones-worker.py): its main loop asks the web *)
(* service for a task, runs riskzones.py on it, sends the results, deletes *)
(* the files of the task and sleeps.  pc is the position of the loop, err  *)
(* the exception that ended the process.  A file is named by the key of    *)
(* the task's config that holds its path ("json": the descriptor           *)
(* TASKS_DIR/<base_filename>.json).                                        *)
(***************************************************************************)
MaxTasks == 2

\* the keys of a task
TaskKeys == {"id", "config", "geojson"}

\* the keys of task['config'] process_task gives a directory to, in the order
\* of its assignments ("extract" is made from 'pois')
PathKeys ==
    <<"geojson", "pois", "output", "output_edus", "output_roads", "output_rivers",
      "output_elevation", "output_slope", "res_data", "base_filename">>

\* the keys of task['config'] the call of overpass.get_osm_from_bbox reads
BBoxKeys == {"bottom", "left", "top", "right"}

\* the keys of task['config'] delete_task_files reads
DeleteKeys ==
    {"base_filename", "geojson", "pois", "output", "output_edus", "output_roads",
     "res_data", "extract"}

\* the files delete_task_files removes
DeletedFiles ==
    {"json", "geojson", "pois", "output", "output_edus", "output_roads", "res_data",
     "extract"}

\* the files a run of riskzones.py writes for a descriptor with every key
RiskzonesFiles ==
    {"output", "output_edus", "output_roads", "output_elevation", "output_slope",
     "res_data"}

\* the files process_task opens to send them
UploadFiles ==
    {"output", "output_edus", "output_roads", "output_rivers", "output_elevation",
     "output_slope", "res_data"}

\* the tasks the web service sends: complete, or without one key
Tasks ==
    LET all == Range(PathKeys) \cup BBoxKeys
    IN  {[none |-> FALSE, keys |-> TaskKeys, config |-> all]}
        \cup {[none |-> FALSE, keys |-> TaskKeys \ {k}, config |-> all] : k \in TaskKeys}
        \cup {[none |-> FALSE, keys |-> TaskKeys, config |-> all \ {k}] :
                  k \in Range(PathKeys) \cup {"bottom"}}

\* the worker starts: OUT_DIR may hold a file from before
InitWorker ==
    /\ pc = "get_task"
    /\ err = ""
    /\ grid_x = 1 /\ grid_y = 1
    /\ M = 1
    /\ n_edus_loose = 0
    /\ n_edus_tight = 0
    /\ zone_size = 100
    /\ conn_threshold = 0
    /\ edu_alg = "balanced"
    /\ inside = [id \in 0..(grid_x * grid_y - 1) |-> TRUE]
    /\ RL = [id \in 0..(grid_x * grid_y - 1) |-> M]
    /\ is_road = [id \in 0..(grid_x * grid_y - 1) |-> FALSE]
    /\ dpconn = [id \in 0..(grid_x * grid_y - 1) |-> 0]
    /\ polygons = <<>>
    /\ pois = <<>>
    /\ risk = [id \in 0..(grid_x * grid_y - 1) |-> Rat(1, 1)]
    /\ elev_in = [on |-> FALSE, H |-> [id \in 0..(grid_x * grid_y - 1) |-> Rat(1, 1)]]
    /\ risk_elevation = [id \in 0..(grid_x * grid_y - 1) |-> <<>>]
    /\ InitEdus
    /\ InitLoop
    /\ roads = <<>>
    /\ roads_points = 0
    /\ n_calls = 0
    /\ range_radius = 0
    /\ spiral_center = 0
    /\ spiral_path = <<>>
    /\ exit_status = -1
    /\ outputs = {}
    /\ cache_zones = FALSE
    /\ cache_file = <<>>
    /\ conf = RequiredKeys
    /\ pois_all = pois
    /\ time_classification = FALSE
    /\ last_edus = <<>>
    /\ task = NoTask
    /\ files \in {{}, {"output_rivers"}}
    /\ n_tasks = 0

\* what the grid engine owns: the worker leaves it alone
engineVars ==
    <<inputVars, classVars, eduVars, loopVars, roadVars, spiralVars, runVars>>

\* task = get_task(): None (no connection, timeout, status 204, 401, other)
\* or the task of the response
GetTask ==
    /\ pc = "get_task"
    /\ \/ /\ task' = NoTask
          /\ pc' = "sleep"
          /\ UNCHANGED n_tasks
       \/ /\ n_tasks < MaxTasks
          /\ \E t \in Tasks : task' = t
          /\ n_tasks' = n_tasks + 1
          /\ pc' = "process_task"
    /\ UNCHANGED <<err, files, engineVars>>

\* the first key of PathKeys, from the k-th on, that config lacks (0: none)
RECURSIVE FirstMissing(_, _)
FirstMissing(config, k) ==
    IF k > Len(PathKeys) THEN 0
    ELSE IF PathKeys[k] \notin config THEN k
    ELSE FirstMissing(config, k + 1)

\* process_task(task) returns or raises:
\*  - task['config'], task['geojson'], taskcfg["base_filename"] read outside
\*    any try;
\*  - "except KeyError: return" around the assignments of the paths;
\*  - the descriptor and the GeoJSON file written;
\*  - overpass: ConnectionError and ReadTimeout are caught, the bounding box
\*    keys are read in the call;
\*  - subprocess.run: TimeoutExpired, a return code other than 0, or 0 with
\*    the files of riskzones.py written;
\*  - the files to send opened, task["id"] read, requests.put: any status, or
\*    ConnectionError / ReadTimeout caught.
ProcessTask ==
    /\ pc = "process_task"
    /\ LET raises(e, f) == pc' = "raised" /\ err' = e /\ files' = f /\ UNCHANGED task
           returns(f) == pc' = "delete_task_files" /\ err' = "" /\ files' = f
           miss == FirstMissing(task.config, 1)
           withExtract == [task EXCEPT !.config = @ \cup {"extract"}]
           written == files \cup {"json", "geojson"}
           fetched == written \cup {"pois"}
           done == fetched \cup RiskzonesFiles
       IN  IF ~({"config", "geojson"} \subseteq task.keys)
                \/ "base_filename" \notin task.config
           THEN raises("KeyError", files)
           ELSE IF miss # 0
           THEN /\ returns(files)
                /\ task' = IF miss > 1 /\ "pois" \in task.config
                           THEN withExtract ELSE task
           ELSE IF ~(BBoxKeys \subseteq task.config)
           THEN raises("KeyError", written)
           ELSE \/ \E overpass \in {"ConnectionError", "ReadTimeout"} :
                      returns(written) /\ task' = withExtract
                \/ \E res \in {"TimeoutExpired", "returncode"} :
                      \E w \in {{}, RiskzonesFiles} :
                          returns(fetched \cup w) /\ task' = withExtract
                \/ /\ ~(UploadFiles \subseteq done)
                   /\ raises("FileNotFoundError", done)
                \/ /\ UploadFiles \subseteq done
                   /\ "id" \notin task.keys
                   /\ raises("KeyError", done)
                \/ /\ UploadFiles \subseteq done
                   /\ "id" \in task.keys
                   /\ \E put \in {"201", "401", "500", "ConnectionError", "ReadTimeout"} :
                          returns(done) /\ task' = withExtract
    /\ UNCHANGED <<n_tasks, engineVars>>

\* delete_task_files(task): the paths are read from task['config'], then the
\* files that exist are removed
DeleteTaskFiles ==
    /\ pc = "delete_task_files"
    /\ IF DeleteKeys \subseteq task.config
       THEN /\ files' = files \ DeletedFiles
            /\ pc' = "sleep"
            /\ UNCHANGED err
       ELSE /\ pc' = "raised"
            /\ err' = "KeyError"
            /\ UNCHANGED files
    /\ UNCHANGED <<task, n_tasks, engineVars>>

\* time.sleep(sleep_time), then the loop starts again
Sleep ==
    /\ pc = "sleep"
    /\ pc' = "get_task"
    /\ UNCHANGED <<err, workerVars, engineVars>>

NextWorker ==
    \/ GetTask
    \/ ProcessTask
    \/ DeleteTaskFiles
    \/ Sleep

SpecWorker == InitWorker /\ [][NextWorker]_vars

\* the process runs on: a call that can return does, and sleep ends
SpecWorkerLive == SpecWorker /\ WF_vars(NextWorker)

(***************************************************************************)
(* Claims on the EDUs positioning algorithms (SpecPlace).                  *)
(***************************************************************************)
\* the number of positions of the list l that hold the zone z
Occurrences(l, z) == Cardinality({k \in 1..Len(l) : l[k] = z})

\* C1: after any placement policy finishes, no list edus[i] contains the
\* same cell twice.
C1_NoCellTwiceInAList ==
    pc = "positioned" =>
        \A i \in Levels : \A z \in Range(edus[i]) : Occurrences(edus[i], z) = 1

\* C2: after any placement policy finishes, every cell of a list edus[i] has
\* has_edu = true and appears in exactly one of the lists edus[1..M].
C2_EduCellsFlaggedAndInOneList ==
    pc = "positioned" =>
        \A i \in Levels : \A z \in Range(edus[i]) :
            /\ has_edu[z]
            /\ \A j \in Levels : z \in Range(edus[j]) => j = i

\* C3: after any placement policy finishes, the lists edus[1..M] hold at
\* most n_edus_loose + n_edus_tight EDUs together.
C3_TotalWithinRequested ==
    pc = "positioned" => CountEdus(edus) <= n_edus_loose + n_edus_tight

\* grid distance (squared: d2) strictly greater than d_i = 2 r_i + 1, where
\* 2 r_i = sqrt(RadA(ax, i)):  sqrt(d2) - 1 > sqrt(RadA)
StrictlyBeyondMinDist(ax, i, d2) ==
    /\ d2 + 1 - RadA(ax, i) > 0
    /\ (d2 + 1 - RadA(ax, i)) * (d2 + 1 - RadA(ax, i)) > 4 * d2

\* C4: after Balanced or Restricted+ placement, every two distinct EDUs of a
\* list edus[i] are at a grid distance strictly greater than d_i = 2 r_i + 1.
C4_SameLevelEdusSpaced ==
    (pc = "positioned" /\ edu_alg \in {"enhanced", "restricted_plus"}) =>
        \A i \in Levels : \A a, b \in 1..Len(edus[i]) :
            a # b => StrictlyBeyondMinDist(Ax, i, GridDist2(edus[i][a], edus[i][b]))

\* C5: the loop of the Restricted placement ends once all the EDUs are placed
\* or a run makes no progress: after a run that added no EDU to final_edus
\* the loop test no longer holds.
C5_RestrictedLoopEnds ==
    [][(RestrictedRun /\ CountEdus(final_edus') = CountEdus(final_edus))
          => ~(edus_remaining' > 0)]_vars

\* C6: Restricted+ placement ends without raising on every grid, also on a
\* grid with no eligible road zone inside the AoI.
C6_RestrictedPlusNeverRaises ==
    edu_alg = "restricted_plus" => (pc # "raised" /\ err = "")

\* the zones inside the AoI at each RL
InsideByRL == [i \in Levels |-> Cardinality({id \in ZonesInside : RL[id] = i})]

\* the road zones inside the AoI at each RL whose dpconn exceeds th
ConnectedRoadsByRL(th) ==
    [i \in Levels |->
        Cardinality({id \in ZonesInside : is_road[id] /\ dpconn[id] > th /\ RL[id] = i})]

\* sum of j * n_j
RiskWeightedSum(nz) == SumTo([j \in Levels |-> j * nz[j]], M)

\* floor(N * i * n_i / sum of j * n_j), a 0 replaced by 1
TargetByRL(n, nz) ==
    [i \in Levels |->
        LET t == (n * i * nz[i]) \div RiskWeightedSum(nz)
        IN  IF t = 0 THEN 1 ELSE t]

\* C17: the number of EDUs to position at RL i is
\* floor(N * i * n_i / sum of j * n_j), 1 when that is 0, where n_i counts
\* the zones inside the AoI at RL i or, with use_roads (the runs of
\* Restricted+), the road zones inside the AoI at RL i whose dpconn exceeds
\* the connectivity threshold of the call.
C17_TargetPerRL ==
    /\ (pc = "positioned" /\ edu_alg \in {"balanced", "enhanced"})
       => edus_by_rl = TargetByRL(TotalEdus, InsideByRL)
    /\ (pc = "restricted_plus" /\ n_run > 0
            /\ RiskWeightedSum(ConnectedRoadsByRL(RpThreshold)) # 0)
       => edus_by_rl = TargetByRL(RpTarget * n_run, ConnectedRoadsByRL(RpThreshold))

\* the zones a step appends to the EDU list of RL i
NewEdus(i) == {edus'[i][k] : k \in (Len(edus[i]) + 1)..Len(edus'[i])}

\* C18: every EDU placed by Restricted+ is on a zone that, when chosen, was
\* inside the AoI, was a road, had no EDU and had dpconn above the threshold
\* in force (conn_threshold for the tight EDUs, 0 for the loose ones); the
\* EDU carries the type of the call that placed it, and no loose EDU exists
\* while the tight EDUs are being placed.
C18_RestrictedPlusPlacement ==
    [][(pc = "restricted_plus" /\ n_run' = n_run + 1 /\ pc' = pc)
       => /\ \A i \in Levels :
                /\ Len(edus'[i]) >= Len(edus[i])
                /\ SubSeq(edus'[i], 1, Len(edus[i])) = edus[i]
                /\ Cardinality(NewEdus(i)) = Len(edus'[i]) - Len(edus[i])
                /\ \A id \in NewEdus(i) :
                      /\ inside[id] /\ is_road[id] /\ ~has_edu[id]
                      /\ dpconn[id] > (IF rp_type = EDU_TIGHT THEN conn_threshold ELSE 0)
                      /\ has_edu'[id]
                      /\ edu_type'[id] = rp_type
          /\ \A id \in Ids : has_edu[id] => edu_type'[id] = edu_type[id]
          /\ rp_type = EDU_TIGHT => \A id \in Ids : edu_type'[id] # EDU_LOOSE]_vars

\* both calls have placed an EDU, the loose one on a road zone that the
\* threshold kept from the tight EDUs
C18_Witness ==
    /\ pc = "positioned" /\ edu_alg = "restricted_plus"
    /\ \E a, b \in ZonesInside :
          /\ edu_type[a] = EDU_TIGHT
          /\ edu_type[b] = EDU_LOOSE /\ dpconn[b] <= conn_threshold

\* the zones of the per-RL EDU lists l
ZonesOfLists(l) == UNION {{l[i][k] : k \in 1..Len(l[i])} : i \in DOMAIN l}

\* C19: every zone in a per-RL EDU list is inside the AoI, whatever the
\* positioning algorithm; a zone outside the AoI never receives an EDU.
C19_EdusOnlyInsideAoI ==
    /\ \A id \in ZonesOfLists(edus) \cup ZonesOfLists(final_edus) : id \in ZonesInside
    /\ \A id \in Ids : has_edu[id] => inside[id]

\* an algorithm has finished on a grid where the scan met a zone outside the
\* AoI before a zone it gave an EDU
C19_Witness ==
    /\ pc = "positioned"
    /\ \E out \in Ids \ ZonesInside, id \in ZonesOfLists(edus) :
          out < id /\ RL[out] = RL[id]

(***************************************************************************)
(* Claims on the AoI masking (SpecPoly).                                   *)
(***************************************************************************)
\* the line from p1 to p2 crosses the ray that leaves (lon, lat) eastwards
\* (each line holds its lower end and not its upper end)
RayCrosses(lon, lat, p1, p2) ==
    LET dlat == p2[2] - p1[2]
    IN  /\ (p1[2] > lat) # (p2[2] > lat)
        /\ (lat - p1[2]) * (p2[1] - p1[1]) * Sign(dlat) > (lon - p1[1]) * dlat * Sign(dlat)

\* the even-odd rule
InsideRing(lon, lat, ring) ==
    Cardinality({k \in 1..(Len(ring) - 1) : RayCrosses(lon, lat, ring[k], ring[k + 1])}) % 2 = 1

\* (lon, lat) is on a line of the ring
OnBoundary(lon, lat, ring) ==
    \E k \in 1..(Len(ring) - 1) :
        LET p1 == ring[k]
            p2 == ring[k + 1]
        IN  /\ (p2[1] - p1[1]) * (lat - p1[2]) = (p2[2] - p1[2]) * (lon - p1[1])
            /\ Min2(p1[1], p2[1]) <= lon /\ lon <= Max2(p1[1], p2[1])
            /\ Min2(p1[2], p2[2]) <= lat /\ lat <= Max2(p1[2], p2[2])

\* C7: check_zone_in_polygon_set marks a point inside exactly when it is
\* inside at least one ring by the even-odd rule, for every point that is
\* on no ring's boundary, also when its latitude is that of a ring vertex.
C7_InsideIffInsideARing ==
    pc = "masked" =>
        \A id \in Ids :
            (\A k \in 1..Len(polygons) : ~OnBoundary(ZoneLon(id), ZoneLat(id), polygons[k]))
            => (inside[id] <=> \E k \in 1..Len(polygons) :
                                  InsideRing(ZoneLon(id), ZoneLat(id), polygons[k]))

(***************************************************************************)
(* Claims on the risk computation (SpecRisk).                              *)
(***************************************************************************)
\* the zones inside the AoI that no zone inside the AoI is nearer to the PoI
NearestZones(poi) ==
    {a \in ZonesInside : \A b \in ZonesInside : PoiDist2(a, poi) <= PoiDist2(b, poi)}

\* C8: with a single PoI of negative weight (no elevation layer), a zone
\* nearer to the PoI has a normalized risk and an RL at least those of any
\* farther zone, and the nearest zone has RL = M.
C8_BadPoiNearerIsRiskier ==
    (pc = "classified" /\ Len(pois) = 1 /\ BadPoi(pois[1]) /\ ~elev_in.on) =>
        /\ \A a, b \in ZonesInside :
              PoiDist2(a, pois[1]) < PoiDist2(b, pois[1])
              => (RatLeq(risk[b], risk[a]) /\ RL[a] >= RL[b])
        /\ \A a \in NearestZones(pois[1]) : RL[a] = M

\* the zone in the centre of the grid
CenterZone == grid_x * (grid_y \div 2) + (grid_x \div 2)

\* Scenario 1: 3x3 grid, M = 4, every zone inside, one PoI of weight 1 at the
\* centre of the centre zone, 4 EDUs, Unbalanced policy
Scenario1 ==
    /\ grid_x = 3 /\ grid_y = 3 /\ M = 4
    /\ \A id \in Ids : inside[id]
    /\ pois = <<[lon |-> ZoneLon(CenterZone), lat |-> ZoneLat(CenterZone), weight |-> 1]>>
    /\ n_edus_loose + n_edus_tight = 4
    /\ edu_alg = "balanced"
    /\ ~elev_in.on

\* C9: in Scenario 1 the risk computation and the Unbalanced placement
\* complete, the centre zone has the lowest risk and RL = 1, and exactly one
\* EDU is placed in the centre zone.
C9_Scenario1 ==
    Scenario1 =>
        /\ pc # "raised"
        /\ pc = "positioned" =>
              /\ RL[CenterZone] = 1
              /\ \A id \in Ids : RatLeq(risk[CenterZone], risk[id])
              /\ SumTo([i \in Levels |-> Occurrences(edus[i], CenterZone)], M) = 1

RECURSIVE FloorLog10From(_, _, _)
\* for c >= 1: the largest k <= cap with c >= 10^k
FloorLog10From(c, k, cap) ==
    IF k < cap /\ FracGeq(c.n, c.d, Pow10(k + 1), 1)
    THEN FloorLog10From(c, k + 1, cap) ELSE k

RECURSIVE CeilLog10InvFrom(_, _, _)
\* for c < 1: the smallest k <= cap with c >= 10^-k
CeilLog10InvFrom(c, k, cap) ==
    IF k < cap /\ ~FracGeq(c.n, c.d, 1, Pow10(k))
    THEN CeilLog10InvFrom(c, k + 1, cap) ELSE k

\* min(|floor(log10(c))|, cap) for a rational c > 0
AbsFloorLog10(c, cap) ==
    IF c.n >= c.d THEN FloorLog10From(c, 0, cap) ELSE CeilLog10InvFrom(c, Min2(1, cap), cap)

\* C10 (as stated): every zone inside the AoI gets
\* RL = M - min(|floor(log10(risk_combined))|, M - 1), and RL = 1 when
\* risk_combined = 0.
C10_RLByFloorLog10 ==
    pc = "classified" =>
        \A id \in ZonesInside :
            RL[id] = IF CombinedRisk(id).n = 0 THEN 1
                     ELSE M - AbsFloorLog10(CombinedRisk(id), M - 1)

\* C10 (amended): every zone inside the AoI gets
\* RL = M - min(|trunc(ln(risk_combined))|, M - 1), with the natural
\* logarithm truncated towards 0, and RL = 1 when the normalized risk is 0:
\* k = M - RL is the largest k <= M - 1 with |ln(risk_combined)| >= k.
C10_RLByTruncatedNaturalLog ==
    pc = "classified" =>
        \A id \in ZonesInside :
            IF risk[id].n = 0 THEN RL[id] = 1
            ELSE /\ RL[id] \in 1..M
                 /\ M - RL[id] > 0 => AbsLogAtLeast(CombinedRisk(id), M - RL[id])
                 /\ M - RL[id] < M - 1 => ~AbsLogAtLeast(CombinedRisk(id), M - RL[id] + 1)

\* a classified grid with a zone whose risk is not 0, multiplied by an
\* elevation risk, and quantized strictly between 1 and M
C10_Witness ==
    /\ pc = "classified"
    /\ \E id \in ZonesInside :
          /\ risk[id].n # 0
          /\ risk_elevation[id] # <<>>
          /\ 1 < RL[id] /\ RL[id] < M

\* C11: after normalize_risks and calculate_RL every zone inside the AoI has
\* an integer RL with 1 <= RL <= M, for every M >= 1, every risk and every
\* elevation risk (also one greater than 1).
C11_RLWithinOneToM ==
    pc \in {"classified", "positioned"} => \A id \in ZonesInside : RL[id] \in 1..M

\* a classified grid with a zone whose elevation risk is greater than 1 and a
\* zone whose logarithm is cut by the cap M - 1
C11_Witness ==
    /\ pc = "classified"
    /\ \E id \in ZonesInside :
          /\ risk[id].n # 0
          /\ risk_elevation[id] # <<>>
          /\ risk_elevation[id][1].n > risk_elevation[id][1].d
    /\ \E id \in ZonesInside :
          /\ risk[id].n # 0
          /\ AbsLogAtLeast(CombinedRisk(id), M)
          /\ RL[id] = 1

\* C12: after calculate_risk_from_pois and normalize_risks every zone inside
\* the AoI has 0 <= risk <= 1, for PoIs of positive, negative or mixed
\* weights.
C12_NormalizedRiskInUnitInterval ==
    pc \in {"normalized", "classified", "positioned"} =>
        \A id \in ZonesInside :
            RatLeq(Rat(0, 1), risk[id]) /\ RatLeq(risk[id], Rat(1, 1))

\* a normalized grid with a good and a bad PoI, a zone of risk 0, a zone of
\* risk 1 and a zone strictly between
C12_Witness ==
    /\ pc = "normalized"
    /\ \E a, b \in 1..Len(pois) : BadPoi(pois[a]) /\ ~BadPoi(pois[b])
    /\ \E a, b, c \in ZonesInside :
          /\ risk[a].n = 0
          /\ risk[b] = Rat(1, 1)
          /\ risk[c].n > 0 /\ risk[c].n < risk[c].d

(***************************************************************************)
(* Claims on the roads (SpecRoads).                                        *)
(***************************************************************************)
\* the point is in the bounding box, its boundary included
PointInBBox(p) == 0 <= p[1] /\ p[1] <= 2 * grid_x /\ 0 <= p[2] /\ p[2] <= 2 * grid_y

\* the zone that contains a point of the bounding box (the last zone of the
\* row or of the column for a point of the right or of the top boundary)
ZoneOfPoint(p) == Min2(p[2] \div 2, grid_y - 1) * grid_x + Min2(p[1] \div 2, grid_x - 1)

\* C13: after add_roads, for every segment of its input whose two endpoints
\* are in the bounding box (boundary included), the zone of the start point
\* and the zone of the end point have is_road = true.
C13_EndpointZonesAreRoads ==
    pc = "roads_added" =>
        \A k \in 1..Len(roads) :
            (PointInBBox(roads[k].start) /\ PointInBBox(roads[k].end))
            => (is_road[ZoneOfPoint(roads[k].start)] /\ is_road[ZoneOfPoint(roads[k].end)])

\* the roads of the list whose two endpoints are in the bounding box
RoadsInBBox(rs) == SelectSeq(rs, LAMBDA r : PointInBBox(r.start) /\ PointInBBox(r.end))

\* C14: add_roads skips a segment with an endpoint outside the bounding box:
\* a call leaves is_road as the call without these segments leaves it, and
\* unchanged when every segment has an endpoint outside.
C14_OutsideSegmentsSkipped ==
    [][n_calls' = n_calls + 1 =>
          is_road' = AddRoadsTo(is_road, RoadsInBBox(roads'), Len(RoadsInBBox(roads')))]_vars

\* a call with a segment that starts in a zone and ends outside the bounding
\* box, the zone of its start being no road after the call
C14_Witness ==
    /\ pc = "roads_added"
    /\ \E k \in 1..Len(roads) :
          /\ PointInBBox(roads[k].start)
          /\ ~PointInBBox(roads[k].end)
          /\ ~is_road[ZoneOfPoint(roads[k].start)]
    /\ \E k \in 1..Len(roads) : PointInBBox(roads[k].start) /\ PointInBBox(roads[k].end)

\* C15: after add_roads returns, roads_points is the number of zones with
\* is_road = true, for any number of calls on the same grid.
C15_RoadsPointsCountsRoadZones ==
    pc = "roads_added" => roads_points = Cardinality({id \in Ids : is_road[id]})

(***************************************************************************)
(* Claims on the spiral path (SpecSpiral).                                 *)
(***************************************************************************)
RECURSIVE SpiralZone(_)
\* the id the walk from spiral_center is at after the first k offsets
SpiralZone(k) == IF k = 0 THEN spiral_center ELSE SpiralZone(k - 1) + spiral_path[k]

\* the centre is at least range_radius zones away from every edge
CenterAwayFromEdges ==
    /\ XOf(spiral_center) >= range_radius /\ XOf(spiral_center) + range_radius < grid_x
    /\ YOf(spiral_center) >= range_radius /\ YOf(spiral_center) + range_radius < grid_y

\* C16: for an integer radius R >= 1, __get_spiral_path returns exactly
\* (2R+1)^2 - 1 offsets; their running sums from a centre at least R zones
\* away from every edge are pairwise distinct zones, none of them the centre,
\* all within the (2R+1) x (2R+1) square around the centre.
C16_SpiralVisitsTheSquareOnce ==
    pc = "spiral" =>
        /\ Len(spiral_path) = (2 * range_radius + 1) * (2 * range_radius + 1) - 1
        /\ CenterAwayFromEdges =>
              /\ \A j, k \in 0..Len(spiral_path) : j # k => SpiralZone(j) # SpiralZone(k)
              /\ \A k \in 1..Len(spiral_path) :
                    /\ SpiralZone(k) \in Ids
                    /\ Abs(XOf(SpiralZone(k)) - XOf(spiral_center)) <= range_radius
                    /\ Abs(YOf(SpiralZone(k)) - YOf(spiral_center)) <= range_radius

\* a path of radius 2 or more walked from a centre away from the edges
C16_Witness ==
    /\ pc = "spiral"
    /\ range_radius >= 2
    /\ CenterAwayFromEdges
    /\ Len(spiral_path) >= 24

(***************************************************************************)
(* Claims on the main program (SpecMain).                                  *)
(***************************************************************************)
\* C20: whenever no zone is marked inside the AoI, the run ends with exit
\* status 3 (EXIT_NO_ZONES) before any output file is written: after the
\* masking an empty AoI is only seen at the test and at the exit, with no
\* output file; the step that follows the masking of an empty AoI is the
\* exit with status 3; a run that wrote a file had zones inside the AoI.
C20_NoZonesExitsBeforeOutputs ==
    /\ []((pc \notin {"start", "built"} /\ ZonesInside = {})
            => (pc \in {"masked", "exit"} /\ outputs = {}))
    /\ [](pc = "exit" => (exit_status = EXIT_NO_ZONES /\ outputs = {}))
    /\ [](outputs # {} => ZonesInside # {})
    /\ [][(pc = "masked" /\ ZonesInside = {})
            => (pc' = "exit" /\ exit_status' = EXIT_NO_ZONES /\ outputs' = {})]_vars

\* a run on polygons that leave no zone inside the AoI has ended
C20_Witness ==
    /\ pc = "exit" /\ exit_status = EXIT_NO_ZONES
    /\ polygons # <<>> /\ ZonesInside = {}
    /\ cache_zones /\ cache_file = <<>> /\ outputs = {}

\* C21: a run whose job descriptor lacks a required key (left, zone_size, M,
\* edus, cache_zones, edu_alg, output, ...) ends with exit status 6
\* (EXIT_NO_CONF).
C21_MissingKeyExitsNoConf ==
    (pc \in {"exit", "done", "raised"} /\ ~(RequiredKeys \subseteq conf))
        => exit_status = EXIT_NO_CONF

\* no PoI of the grid lies inside the AoI of the GeoJSON file
NoPoiInsideAoI ==
    /\ "geojson" \in conf
    /\ \A k \in 1..Len(pois_all) :
          ~CheckZoneInPolygonSet(pois_all[k].lon, pois_all[k].lat, polygons)

\* the run has classified the zones (no cache file was loaded)
RiskComputed ==
    \/ pc \in {"risk_pois", "normalized"}
    \/ pc \in {"classified", "positioned", "done"} /\ time_classification

\* every zone inside the AoI has the same risk and the same RL
UniformRisk == \A a, b \in ZonesInside : risk[a] = risk[b] /\ RL[a] = RL[b]

RECURSIVE SpiralOffset(_, _)
\* where the first k steps of a spiral path lead, as <<columns, rows>> from
\* its centre: a step of +-grid_x is one row, a step of +-1 one column
SpiralOffset(path, k) ==
    IF k = 0 THEN <<0, 0>>
    ELSE LET o == SpiralOffset(path, k - 1)
         IN  IF Abs(path[k]) = grid_x
             THEN <<o[1], o[2] + path[k] \div grid_x>>
             ELSE <<o[1] + path[k], o[2]>>

\* the zones of the grid on the spiral path of level i around zone c
OnSpiralAround(ax, i, c) ==
    LET path == GetSpiralPath(SpiralMaxSteps(ax, i))
    IN  {id \in Ids : \E k \in 1..Len(path) :
            LET o == SpiralOffset(path, k)
            IN  XOf(id) = XOf(c) + o[1] /\ YOf(id) = YOf(c) + o[2]}

\* the EDUs a run of the restricted loop appends to final_edus[i]
RunEdus(i) == {final_edus'[i][k] : k \in (Len(final_edus[i]) + 1)..Len(final_edus'[i])}

\* C24: after a run of the restricted mode every EDU it gives to the final
\* lists is on a road zone, and is either an EDU the balanced pass had put on
\* a road zone or a zone inside the AoI on the spiral path around an EDU that
\* the balanced pass had put on a zone that is no road, within the distance
\* radius + 1 of it.
C24_RestrictedEdusOnRoadsOfTheSpiral ==
    [][(pc = "restricted" /\ n_run' = n_run + 1 /\ grid_x > 1) =>
        LET ax == Ax'
            bal == UniformBalanced(ax, [edus |-> EmptyEdus, has_edu |-> NoEdu]).edus
        IN  \A i \in Levels : \A z \in RunEdus(i) :
                /\ is_road[z]
                /\ \/ z \in Range(bal[i])
                   \/ \E c \in Range(bal[i]) :
                        /\ ~is_road[c]
                        /\ inside[z]
                        /\ z \in OnSpiralAround(ax, i, c)
                        /\ ~BeyondRadiusPlusOne(ax, i, GridDist2(c, z))]_vars

\* zone id is in the rectangle of grid indices spanned by the zones a and b
InRectangleOf(id, a, b) ==
    /\ Min2(XOf(a), XOf(b)) <= XOf(id) /\ XOf(id) <= Max2(XOf(a), XOf(b))
    /\ Min2(YOf(a), YOf(b)) <= YOf(id) /\ YOf(id) <= Max2(YOf(a), YOf(b))

\* C25: a call of add_roads with one segment whose endpoints are in the
\* bounding box marks as road only zones of the rectangle of grid indices
\* spanned by the zone of its start and the zone of its end: no zone beyond
\* the end zone, none of another row reached past the end of a row.
C25_SegmentMarksWithinEndZones ==
    [][(n_calls' = n_calls + 1 /\ Len(roads') = 1
            /\ PointInBBox(roads'[1].start) /\ PointInBBox(roads'[1].end)) =>
        \A id \in Ids : (is_road'[id] /\ ~is_road[id]) =>
            InRectangleOf(id, ZoneOfPoint(roads'[1].start), ZoneOfPoint(roads'[1].end))]_vars

\* the endpoints of the roads of the last call of add_roads
RoadEnds == {roads[k].start : k \in 1..Len(roads)} \cup {roads[k].end : k \in 1..Len(roads)}

\* C26: coordinates_to_id gives, for every point of the bounding box (its
\* boundary included), an id of the grid, and this id is y * grid_x + x for the
\* zone in column x and row y that contains the point.
C26_CoordinatesToIdInGrid ==
    pc = "roads_added" =>
        \A p \in RoadEnds : PointInBBox(p) =>
            /\ CoordinatesToId(p[2], p[1]) \in Ids
            /\ CoordinatesToId(p[2], p[1]) = ZoneOfPoint(p)

\* C27: after the positioning, whatever the algorithm, every EDU of the list
\* edus[i] is a zone whose RL is i.
C27_EdusListedUnderTheirRL ==
    pc = "positioned" =>
        \A i \in Levels : \A k \in 1..Len(edus[i]) : RL[edus[i][k]] = i

\* the numbers of zone steps from zone id to the road zones of its row and
\* of its column
RoadSteps(id) ==
    {Abs(XOf(r) - XOf(id)) : r \in {z \in Ids : is_road[z] /\ YOf(z) = YOf(id)}}
    \cup {Abs(YOf(r) - YOf(id)) : r \in {z \in Ids : is_road[z] /\ XOf(z) = XOf(id)}}

\* max(0, 1 - k * reducing_factor) in units of 1/200, k the least of RoadSteps;
\* 0 without a road zone in the row and in the column
UrbanProbByRoadSteps(id) ==
    IF RoadSteps(id) = {} THEN 0
    ELSE LET k == CHOOSE m \in RoadSteps(id) : \A n \in RoadSteps(id) : m <= n
         IN  Max2(0, 200 - k * zone_size)

\* C28: after set_area_urban_probability (called by reset_edus_data in every
\* run of the restricted_plus mode) the urban_prob of each zone is
\* max(0, 1 - k * reducing_factor) for the least number k of zone steps to a
\* road zone of its row or of its column, 0 without such a road zone; it is
\* in [0, 1]; and a later call leaves every urban_prob as it was.
C28_UrbanProbByNearestRoad ==
    [][(pc = "restricted_plus" /\ pc' = pc /\ n_run' = n_run + 1) =>
        /\ \A id \in Ids :
              /\ urban_prob'[id] = UrbanProbByRoadSteps(id)
              /\ 0 <= urban_prob'[id] /\ urban_prob'[id] <= 200
        /\ n_run > 0 => urban_prob' = urban_prob]_vars

\* after two runs of the restricted_plus mode the grid has zones of urban_prob
\* 1, 0.75, 0.5, 0.25 and 0
C28_Witness ==
    /\ pc = "restricted_plus" /\ n_run > 1
    /\ \A v \in {0, 50, 100, 150, 200} : \E id \in Ids : urban_prob[id] = v
    /\ \A id \in Ids : urban_prob[id] = UrbanProbByRoadSteps(id)

\* the run has loaded the zones from the cache file: it stands after load_zones
\* and has not classified
CacheLoaded == pc \in {"classified", "positioned"} /\ ~time_classification

\* C29: a run that loads the cache file skips the classification, positions
\* the EDUs, writes its output files and ends with exit status 0, also when
\* the job descriptor has the key res_data.
C29_CachedRunExitsOk ==
    /\ [][(pc = "built" /\ CacheFound /\ "cache_zones" \in conf)
            => (pc' = "classified" /\ ~time_classification')]_vars
    /\ (CacheLoaded /\ RequiredKeys \subseteq conf)
          ~> (pc = "done" /\ exit_status = EXIT_OK /\ "output" \in outputs
                /\ ("res_data" \in conf => "res_data" \in outputs))

\* C30: no task stops the main loop of the worker: whatever the task and the
\* outcome of its processing, the worker deletes the files of the task, sleeps
\* and asks for the next task.
C30_WorkerLoopSurvivesTasks ==
    /\ [](pc # "raised")
    /\ []((pc = "sleep" /\ ~task.none) => files \cap DeletedFiles = {})
    /\ (pc = "process_task") ~> (pc = "sleep")
    /\ (pc = "sleep") ~> (pc = "get_task")

====
